---- MODULE Spec2Model ----
(***************************************************************************)
(* Request lifecycle and message thread of connectry.                      *)
(*                                                                         *)
(* The backend holds one request row (the row with the id the detail       *)
(* screens are opened on) and its messages table.  Each element of         *)
(* Sessions is one mounted instance of RequestDetailPage                   *)
(* (src/app/requests/[id]/page.tsx).  An async handler is one action per   *)
(* await point: the click, then the response of the backend call.  The     *)
(* response action applies the write at the backend and runs the           *)
(* continuation of the handler with the values the handler captured at     *)
(* click time (its closure over view).                                     *)
(*                                                                         *)
(* Not modelled: statusMessage (a flash text no handler or render guard    *)
(* reads), the profile and work rows shown in the side panel.              *)
(***************************************************************************)
EXTENDS Integers, Sequences, FiniteSets, TLC

\* ------------------------------------------------------------ bounds
\* rows the messages table may hold
MaxMessages == 1

\* rows the messages table may hold when one screen alone is followed
MaxSends == 3

\* runs of fetchData of the requests list in flight at once
MaxListFetches == 2

\* runs of fetchHeaderInfo in flight at once
MaxFetches == 1

\* rows the messages table may hold when the thread alone is followed
MaxThread == 3

\* rows the requests table may hold when the request forms are followed
MaxRequests == 2

\* successful toggles followed on one mounted work detail screen or like
\* button
MaxToggles == 2

\* rows the work_likes table may hold
MaxLikes == 3

\* the detail screens open on the request: two browser tabs
Sessions == {"tab1", "tab2"}

\* ------------------------------------------------------------ values
NoUser == "null"
NoRow == [none |-> TRUE]
NoView == [none |-> TRUE]
NoCall == [none |-> TRUE]
Null == "null"

\* profile ids; the request form is opened for creator u1 by client u2,
\* u3 takes no part in the request
Users == {"u1", "u2", "u3"}
CreatorIds == {"u1"}
ClientIds == {"u2"}

Status == {"pending", "accepted", "rejected", "closed"}

\* texts typed into a message field: empty, blank, padded text
Space == " "
Drafts == {<<>>, <<Space>>, <<Space, "a", Space>>}

\* the request forms' title field, the workId of the query string, and the
\* free text of the preferred-time field (the budget field is appended to
\* the body the same way and is left out)
Titles == {<<Space>>, <<"t">>}
WorkIds == {"w1"}
Whens == {<<>>, <<"w">>}

\* String.prototype.trim on a sequence of characters
RECURSIVE TrimStart(_)
TrimStart(str) ==
    IF str # <<>> /\ Head(str) = Space THEN TrimStart(Tail(str)) ELSE str

RECURSIVE TrimEnd(_)
TrimEnd(str) ==
    IF str # <<>> /\ str[Len(str)] = Space
    THEN TrimEnd(SubSeq(str, 1, Len(str) - 1))
    ELSE str

trim(str) == TrimEnd(TrimStart(str))

\* null in a text column, kept apart from the empty string
NullText == <<Null>>

\* the accounts whose profile is followed, the roles of the signup form and
\* the texts typed into the fields of the profile forms
ProfileUsers == {"u1", "u2"}
Roles == {"creator", "client"}
Names == {<<Space>>, <<Space, "n">>}
Bios == {<<>>, <<"b">>}
Areas == {<<>>, <<"k">>}

\* is_public of a works row: boolean | null
Visibility == {"true", "false", Null}

\* ------------------------------------------------------------ state
VARIABLES
    request,        \* the requests row, NoRow before it is inserted
    messages,       \* the messages rows of the request, in created_at order
    formPc,         \* request form: "idle", "message" (request inserted), "done"
    formUser,       \* user id the form wrote as client_id
    formVariant,    \* which of the two insert forms submitted
    formErrorMsg,   \* errorMsg of the form
    formMessage,    \* the form's message field at submit
    pc,             \* screen: "closed", "fetchRequest", "fetchMessages", "mounted"
    sessUser,       \* supabase.auth.getUser() of the screen's browser
    initRequest,    \* init's local `request`
    loading, errorMsg, view, status, updatingStatus, newMessage, sending,
    updCall,        \* in-flight updateStatus: [next, view] captured at click
    sendCall,       \* in-flight handleSendMessage: [body, view] captured at click
    requestsTable,  \* request forms: the rows of the requests table
    messagesTable,  \* request forms: the rows of the messages table
    form,           \* request forms: the mounted form component
    workRow,        \* the works row of work w1, NoRow before it is inserted
    workDetail,     \* WorkDetailPage opened on w1
    worksPage,      \* WorksPage, the works list
    profileDetail,  \* ProfileDetailPage opened on the creator of w1
    likesTable,     \* the work_likes rows of work w1: the user_id of each
    likeButton,     \* WorkLikeButton mounted on w1 (creatorId u1)
    profilesTable,  \* the profiles row of each user, NoRow before signup
    profileEdit,    \* the mounted profile edit form
    inbox,          \* header: the requests and messages rows it counts over
    header,         \* AppHeader: session, unreadCount, fetches in flight
    list,           \* RequestsPage, the requests list
    auth,           \* the browser's session, its route and the login screen
    workEdit        \* WorkEditPage and NewWorkPage on work w1

backendVars == <<request, messages>>
formVars == <<formPc, formUser, formVariant, formErrorMsg, formMessage>>
screenVars == <<pc, sessUser, initRequest, loading, errorMsg, view, status,
                updatingStatus, newMessage, sending, updCall, sendCall>>
detailVars == <<backendVars, formVars, screenVars>>
submitVars == <<requestsTable, messagesTable, form>>
workVars == <<workRow, workDetail, worksPage, profileDetail>>
likeVars == <<likesTable, likeButton>>
profileVars == <<profilesTable, profileEdit>>
headerVars == <<inbox, header>>
listVars == <<list>>
authVars == <<auth>>
editVars == <<workEdit>>
moreVars == <<headerVars, listVars, authVars, editVars>>
oldVars == <<detailVars, submitVars, workVars, likeVars, profileVars>>
notHeader == <<oldVars, listVars, authVars, editVars>>
notList == <<oldVars, headerVars, authVars, editVars>>
notAuth == <<oldVars, headerVars, listVars, editVars>>
notEdit == <<oldVars, headerVars, listVars, authVars>>
sideVars == <<submitVars, workVars, likeVars, profileVars, moreVars>>
vars == <<detailVars, sideVars>>

\* ------------------------------------------------------------ backend
\* status literal of the insert payload of the two request forms
FormStatus(variant) == "pending"

\* the insert payload with client_id taken from the creator id of the query
InsertRequestClientFromQuery(creatorId, clientId, st) ==
    [creator_id |-> creatorId, client_id |-> creatorId, status |-> st]

\* requests.insert({creator_id, client_id, ..., status})
InsertRequest(creatorId, clientId, st) ==
    [creator_id |-> creatorId, client_id |-> clientId, status |-> st]

\* an update that leaves a rejected or closed row alone
ApplyStatusUpdateGuarded(row, next) ==
    IF row.status \in {"rejected", "closed"} THEN row
    ELSE [row EXCEPT !.status = next]

\* requests.update({status: next}).eq('id', ...): no filter on the stored status
ApplyStatusUpdate(row, next) == [row EXCEPT !.status = next]

\* messages.insert(...).select(...).single(): the backend assigns id and
\* created_at (its clock, which never runs backwards)
NewMessageRow(senderId, body) ==
    [id |-> Len(messages) + 1, sender_id |-> senderId, body |-> body,
     created_at |-> Len(messages) + 1]

\* rows put in ascending created_at order, ties kept in table order
RECURSIVE InsertByCreatedAt(_, _)
InsertByCreatedAt(row, sorted) ==
    IF sorted = <<>> THEN <<row>>
    ELSE IF row.created_at < Head(sorted).created_at
         THEN <<row>> \o sorted
         ELSE <<Head(sorted)>> \o InsertByCreatedAt(row, Tail(sorted))

RECURSIVE OrderByCreatedAt(_)
OrderByCreatedAt(rows) ==
    IF rows = <<>> THEN <<>>
    ELSE InsertByCreatedAt(rows[Len(rows)],
                           OrderByCreatedAt(SubSeq(rows, 1, Len(rows) - 1)))

RECURSIVE Reverse(_)
Reverse(rows) ==
    IF rows = <<>> THEN <<>> ELSE Append(Reverse(Tail(rows)), Head(rows))

\* the messages select with ascending: false
SelectMessagesDescending == Reverse(OrderByCreatedAt(messages))

\* messages.select(...).eq('request_id', ...).order('created_at',
\* {ascending: true})
SelectMessages == OrderByCreatedAt(messages)

\* message inserts issued and not yet answered
InFlightInserts ==
    Cardinality({s \in Sessions : sendCall[s] # NoCall})
        + (IF formPc = "message" THEN 1 ELSE 0)

\* ------------------------------------------------------------ render
\* the part of the component below the loading and the error early returns
MainRendered(s) ==
    /\ pc[s] # "closed"
    /\ ~loading[s]
    /\ ~(errorMsg[s] # Null \/ view[s] = NoView)

\* canOperateStatus without the isCreator test
canOperateStatusAnyRole(s) ==
    status[s] = "pending" \/ status[s] = "accepted"

canOperateStatus(s) ==
    view[s].isCreator /\ (status[s] = "pending" \/ status[s] = "accepted")

\* the status buttons without the tests on status around them
OfferedActionsAnyStatus(s) ==
    IF MainRendered(s) /\ canOperateStatus(s)
    THEN {"accept", "reject", "close"}
    ELSE {}

\* the status buttons the screen renders
OfferedActions(s) ==
    IF MainRendered(s) /\ canOperateStatus(s)
    THEN (IF status[s] = "pending" THEN {"accept", "reject"} ELSE {})
         \cup (IF status[s] = "accepted" THEN {"close"} ELSE {})
    ELSE {}

\* a rendered status button with its disabled attribute left out
StatusButtonNeverDisabled(s, a) == a \in OfferedActions(s)

\* a rendered status button that is not disabled
StatusButtonEnabled(s, a) == a \in OfferedActions(s) /\ ~updatingStatus[s]

\* the send form without the test on status around it
SendFormRenderedAnyStatus(s) ==
    /\ MainRendered(s)
    /\ view[s].currentUserId # NoUser

SendFormRendered(s) ==
    /\ MainRendered(s)
    /\ view[s].currentUserId # NoUser
    /\ status[s] # "rejected" /\ status[s] # "closed"

SendButtonEnabled(s) ==
    SendFormRendered(s) /\ ~(sending[s] \/ trim(newMessage[s]) = <<>>)

\* ------------------------------------------------------------ initial state
\* a screen that is not mounted has no state
ClosedWorkDetail == [pc |-> "closed"]

\* the useState initial values of WorkDetailPage; loaded and toggled record
\* is_public as init fetched it and the toggles that succeeded since
FreshWorkDetail ==
    [pc |-> "init", user |-> NoUser, work |-> NoRow, loading |-> TRUE,
     errorMsg |-> Null, isOwner |-> FALSE, updatingVisibility |-> FALSE,
     call |-> NoCall, loaded |-> Null, toggled |-> 0]

ClosedProfileEdit == [pc |-> "closed"]

\* the useState initial values of the profile edit forms
FreshProfileEdit ==
    [pc |-> "init", variant |-> Null, user |-> NoUser, profile |-> NoRow,
     display_name |-> <<>>, bio |-> <<>>, area |-> <<>>, errorMsg |-> Null,
     successMsg |-> Null, saving |-> FALSE, payload |-> NoCall]

ClosedLikeButton == [pc |-> "closed"]
ClosedList == [pc |-> "closed"]

\* the useState initial values of WorkLikeButton; loaded and toggled record
\* count and flag as init left them and the toggles that succeeded since
FreshLikeButton ==
    [pc |-> "init", sessionUser |-> NoUser, currentUserId |-> NoUser,
     likeCount |-> 0, liked |-> FALSE, loading |-> TRUE, toggling |-> FALSE,
     errorMsg |-> Null, call |-> NoCall, route |-> <<>>,
     loaded |-> [likeCount |-> 0, liked |-> FALSE], toggled |-> 0]

Init ==
    /\ request = NoRow
    /\ messages = <<>>
    /\ formPc = "idle"
    /\ formUser = NoUser
    /\ formVariant = Null
    /\ formErrorMsg = Null
    /\ formMessage = <<>>
    /\ pc = [s \in Sessions |-> "closed"]
    /\ sessUser = [s \in Sessions |-> NoUser]
    /\ initRequest = [s \in Sessions |-> NoRow]
    /\ loading = [s \in Sessions |-> TRUE]
    /\ errorMsg = [s \in Sessions |-> Null]
    /\ view = [s \in Sessions |-> NoView]
    /\ status = [s \in Sessions |-> "pending"]
    /\ updatingStatus = [s \in Sessions |-> FALSE]
    /\ newMessage = [s \in Sessions |-> <<>>]
    /\ sending = [s \in Sessions |-> FALSE]
    /\ updCall = [s \in Sessions |-> NoCall]
    /\ sendCall = [s \in Sessions |-> NoCall]
    /\ requestsTable = <<>>
    /\ messagesTable = <<>>
    /\ form = [pc |-> "closed"]
    /\ likesTable = <<>>
    /\ likeButton = ClosedLikeButton
    /\ profilesTable = [u \in ProfileUsers |-> NoRow]
    /\ profileEdit = ClosedProfileEdit
    /\ workRow = NoRow
    /\ workDetail = ClosedWorkDetail
    /\ worksPage = [pc |-> "closed", works |-> {}]
    /\ profileDetail = [pc |-> "closed", works |-> {}]
    /\ inbox = [requests |-> {}, messages |-> {}]
    /\ header = [sessionUser |-> NoUser, unreadCount |-> 0, profile |-> Null,
                 fetches |-> <<>>]
    /\ list = ClosedList
    /\ auth = [pc |-> "closed"]
    /\ workEdit = [pc |-> "closed"]

\* ------------------------------------------------------------ request forms
FormVariants == {"RequestNewPageClient", "NewRequestPage"}

\* handleSubmit up to the answer of requests.insert, insert succeeded
FormSubmitRequest(variant, creatorId, uid, msg) ==
    /\ formPc = "idle"
    /\ request = NoRow
    /\ trim(msg) # <<>>
    /\ request' = InsertRequest(creatorId, uid, FormStatus(variant))
    /\ formPc' = "message"
    /\ formUser' = uid
    /\ formVariant' = variant
    /\ formErrorMsg' = Null
    /\ formMessage' = msg
    /\ UNCHANGED <<messages, screenVars, sideVars>>

\* handleSubmit, requests.insert answered with an error
FormSubmitRequestError(variant, msg) ==
    /\ formPc = "idle"
    /\ request = NoRow
    /\ trim(msg) # <<>>
    /\ formErrorMsg' = "createfail"
    /\ UNCHANGED <<formPc, formUser, formVariant, formMessage,
                   backendVars, screenVars, sideVars>>

\* router.push to the detail screen: the form is unmounted, its state is gone
FormNavigate ==
    /\ formPc' = "done"
    /\ formUser' = NoUser
    /\ formVariant' = Null
    /\ formErrorMsg' = Null
    /\ formMessage' = <<>>

\* the text appended to the body for a filled preferred-time field; "#"
\* stands for the two line breaks and the heading
WhenPart(when) == IF when # <<>> THEN <<"#">> \o when ELSE <<>>

\* the initial message with the heading and the preferred time alone
InitialBodyWithoutMessage(variant, msg, when) == WhenPart(when)

\* body of the initial message: message.trim() (part_006), initialBody ||
\* message (part_004), fullMessage (part_005)
InitialBodyOf(variant, msg, when) ==
    IF variant = "RequestNewPageClient" THEN trim(msg)
    ELSE IF variant = "NewRequestPage"
         THEN (IF trim(msg) \o WhenPart(when) # <<>>
               THEN trim(msg) \o WhenPart(when) ELSE msg)
         ELSE msg \o WhenPart(when)

\* body of the initial message of a form whose other fields are empty
InitialBody(variant, msg) == InitialBodyOf(variant, msg, <<>>)

\* handleSubmit from the answer of requests.insert on: messages.insert succeeded
FormInsertMessage ==
    /\ formPc = "message"
    /\ messages' = Append(messages,
                          NewMessageRow(formUser, InitialBody(formVariant, formMessage)))
    /\ FormNavigate
    /\ UNCHANGED <<request, screenVars, sideVars>>

\* messages.insert answered with an error: the request row stays and the form
\* navigates to the detail screen all the same
FormInsertMessageError ==
    /\ formPc = "message"
    /\ FormNavigate
    /\ UNCHANGED <<backendVars, screenVars, sideVars>>

\* ------------------------------------------------------------ request forms, step by step
\* The three request forms with their fields, their errorMsg and the route
\* they push, over a requests and a messages table of their own.
SubmitVariants ==
    {"RequestNewPageClient", "NewRequestPage", "RequestNewPageClientRpc"}

\* the form is mounted by a logged-in user and init found the creator
SubmitOpen(variant, uid, creatorId, workId) ==
    /\ form.pc \in {"closed", "navigated"}
    /\ Len(requestsTable) < MaxRequests
    /\ form' = [pc |-> "ready", variant |-> variant, currentUserId |-> uid,
                creatorId |-> creatorId, workId |-> workId, title |-> <<>>,
                message |-> <<>>, when |-> <<>>, errorMsg |-> Null,
                submitting |-> FALSE, requestId |-> Null, route |-> Null]
    /\ UNCHANGED <<requestsTable, messagesTable, detailVars, workVars, likeVars, profileVars, moreVars>>

\* the user fills the fields
SubmitType(t, m, w) ==
    /\ form.pc = "ready"
    /\ form' = [form EXCEPT !.title = t, !.message = m, !.when = w]
    /\ UNCHANGED <<requestsTable, messagesTable, detailVars, workVars, likeVars, profileVars, moreVars>>

\* handleSubmit up to its first awaited write
HandleSubmit ==
    /\ form.pc = "ready"
    /\ ~form.submitting
    /\ form.creatorId # Null /\ form.currentUserId # NoUser
    /\ IF trim(form.title) = <<>> \/ trim(form.message) = <<>>
       THEN form' = [form EXCEPT !.errorMsg = "required"]
       ELSE form' = [form EXCEPT
                        !.pc = IF form.variant = "RequestNewPageClientRpc"
                               THEN "rpc" ELSE "insertRequest",
                        !.submitting = TRUE,
                        !.errorMsg = Null]
    /\ UNCHANGED <<requestsTable, messagesTable, detailVars, workVars, likeVars, profileVars, moreVars>>

\* the message column of the requests row
MessageSnapshot(variant, msg) ==
    IF variant = "RequestNewPageClient" THEN trim(msg) ELSE msg

\* the row requests.insert stores for the form's payload
RequestPayload(f) ==
    InsertRequest(f.creatorId, f.currentUserId, FormStatus(f.variant))
        @@ [id |-> Len(requestsTable) + 1, work_id |-> f.workId,
            message |-> MessageSnapshot(f.variant, f.message)]

\* the row messages.insert stores for the form's initial message
InitialMessagePayload(f, requestId) ==
    [id |-> Len(messagesTable) + 1, request_id |-> requestId,
     sender_id |-> f.currentUserId,
     body |-> InitialBodyOf(f.variant, f.message, f.when)]

\* requests.insert answered with the new row's id
SubmitRequestOk ==
    /\ form.pc = "insertRequest"
    /\ requestsTable' = Append(requestsTable, RequestPayload(form))
    /\ form' = [form EXCEPT !.pc = "insertMessage",
                            !.requestId = Len(requestsTable) + 1]
    /\ UNCHANGED <<messagesTable, detailVars, workVars, likeVars, profileVars, moreVars>>

\* requests.insert answered with an error or without a row
SubmitRequestError ==
    /\ form.pc = "insertRequest"
    /\ form' = [form EXCEPT !.pc = "ready", !.errorMsg = "createfail",
                            !.submitting = FALSE]
    /\ UNCHANGED <<requestsTable, messagesTable, detailVars, workVars, likeVars, profileVars, moreVars>>

\* messages.insert succeeded: router.push to the detail screen
SubmitMessageOk ==
    /\ form.pc = "insertMessage"
    /\ messagesTable' =
          Append(messagesTable, InitialMessagePayload(form, form.requestId))
    /\ form' = [form EXCEPT
                    !.pc = "navigated",
                    !.route = form.requestId,
                    !.submitting = (form.variant = "RequestNewPageClient")]
    /\ UNCHANGED <<requestsTable, detailVars, workVars, likeVars, profileVars, moreVars>>

\* messages.insert answered with an error: part_006 sets its warning,
\* part_004 logs to the console only; both push the detail route
SubmitMessageError ==
    /\ form.pc = "insertMessage"
    /\ form' = [form EXCEPT
                    !.pc = "navigated",
                    !.route = form.requestId,
                    !.errorMsg = IF form.variant = "RequestNewPageClient"
                                 THEN "messagefail" ELSE @,
                    !.submitting = FALSE]
    /\ UNCHANGED <<requestsTable, messagesTable, detailVars, workVars, likeVars, profileVars, moreVars>>

\* the backend function create_request_with_message: one pending request
\* and its initial message, stored together
create_request_with_message(p_creator_id, p_client_id, p_work_id, p_message) ==
    /\ requestsTable' =
          Append(requestsTable,
                 [id |-> Len(requestsTable) + 1, creator_id |-> p_creator_id,
                  client_id |-> p_client_id, work_id |-> p_work_id,
                  status |-> "pending", message |-> p_message])
    /\ messagesTable' =
          Append(messagesTable,
                 [id |-> Len(messagesTable) + 1,
                  request_id |-> Len(requestsTable) + 1,
                  sender_id |-> p_client_id, body |-> p_message])

\* supabase.rpc answered with the request id
SubmitRpcOk ==
    /\ form.pc = "rpc"
    /\ create_request_with_message(
            form.creatorId, form.currentUserId, form.workId,
            InitialBodyOf(form.variant, form.message, form.when))
    /\ form' = [form EXCEPT !.pc = "navigated",
                            !.requestId = Len(requestsTable) + 1,
                            !.route = Len(requestsTable) + 1]
    /\ UNCHANGED <<detailVars, workVars, likeVars, profileVars, moreVars>>

\* supabase.rpc answered with an error
SubmitRpcError ==
    /\ form.pc = "rpc"
    /\ form' = [form EXCEPT !.pc = "ready", !.errorMsg = "createfail",
                            !.submitting = FALSE]
    /\ UNCHANGED <<requestsTable, messagesTable, detailVars, workVars, likeVars, profileVars, moreVars>>

NextSubmit ==
    \/ \E variant \in SubmitVariants, uid \in ClientIds,
          creatorId \in CreatorIds, workId \in WorkIds \cup {Null} :
            SubmitOpen(variant, uid, creatorId, workId)
    \/ \E t \in Titles, m \in Drafts, w \in Whens : SubmitType(t, m, w)
    \/ HandleSubmit
    \/ SubmitRequestOk
    \/ SubmitRequestError
    \/ SubmitMessageOk
    \/ SubmitMessageError
    \/ SubmitRpcOk
    \/ SubmitRpcError

SpecSubmit == Init /\ [][NextSubmit]_vars

\* ------------------------------------------------------------ detail screen
\* the component's useState initial values
FreshScreen(s) ==
    /\ loading' = [loading EXCEPT ![s] = TRUE]
    /\ errorMsg' = [errorMsg EXCEPT ![s] = Null]
    /\ view' = [view EXCEPT ![s] = NoView]
    /\ status' = [status EXCEPT ![s] = "pending"]
    /\ updatingStatus' = [updatingStatus EXCEPT ![s] = FALSE]
    /\ newMessage' = [newMessage EXCEPT ![s] = <<>>]
    /\ sending' = [sending EXCEPT ![s] = FALSE]
    /\ initRequest' = [initRequest EXCEPT ![s] = NoRow]

\* the screen is mounted in a browser whose logged-in user is u (or nobody);
\* the effect starts init
Open(s, u) ==
    /\ pc[s] = "closed"
    /\ pc' = [pc EXCEPT ![s] = "fetchRequest"]
    /\ sessUser' = [sessUser EXCEPT ![s] = u]
    /\ FreshScreen(s)
    /\ UNCHANGED <<backendVars, formVars, sideVars, updCall, sendCall>>

\* init: getUser and the requests select answered with the row
InitFetchRequest(s) ==
    /\ pc[s] = "fetchRequest"
    /\ request # NoRow
    /\ initRequest' = [initRequest EXCEPT ![s] = request]
    /\ status' = [status EXCEPT ![s] = request.status]
    /\ pc' = [pc EXCEPT ![s] = "fetchMessages"]
    /\ UNCHANGED <<backendVars, formVars, sideVars, sessUser, loading, errorMsg, view,
                   updatingStatus, newMessage, sending, updCall, sendCall>>

\* init: the requests select answered with an error or without a row
InitFetchRequestError(s) ==
    /\ pc[s] = "fetchRequest"
    /\ errorMsg' = [errorMsg EXCEPT ![s] = "notfound"]
    /\ loading' = [loading EXCEPT ![s] = FALSE]
    /\ pc' = [pc EXCEPT ![s] = "mounted"]
    /\ UNCHANGED <<backendVars, formVars, sideVars, sessUser, initRequest, view, status,
                   updatingStatus, newMessage, sending, updCall, sendCall>>

isCreatorOf(uid, row) == uid # NoUser /\ uid = row.creator_id
\* isClientOf with the comparison to client_id left out
isClientOfAnyUser(uid, row) == uid # NoUser

isClientOf(uid, row) == uid # NoUser /\ uid = row.client_id

\* init from the messages select on; msgs is the select's data
\* (the rows in created_at order) or the empty list on msgError
InitFinish(s, msgs) ==
    LET row == initRequest[s]
        uid == sessUser[s]
    IN  /\ pc[s] = "fetchMessages"
        /\ IF ~isCreatorOf(uid, row) /\ ~isClientOf(uid, row)
           THEN /\ errorMsg' = [errorMsg EXCEPT ![s] = "forbidden"]
                /\ UNCHANGED view
           ELSE /\ view' = [view EXCEPT ![s] =
                              [request |-> row, messages |-> msgs,
                               currentUserId |-> uid,
                               isCreator |-> isCreatorOf(uid, row),
                               isClient |-> isClientOf(uid, row)]]
                /\ UNCHANGED errorMsg
        /\ loading' = [loading EXCEPT ![s] = FALSE]
        /\ pc' = [pc EXCEPT ![s] = "mounted"]
        /\ initRequest' = [initRequest EXCEPT ![s] = NoRow]
        /\ UNCHANGED <<backendVars, formVars, sideVars, sessUser, status,
                       updatingStatus, newMessage, sending, updCall, sendCall>>

InitFetchMessages(s) == InitFinish(s, SelectMessages)

InitFetchMessagesError(s) == messages # <<>> /\ InitFinish(s, <<>>)

\* init: one of the awaited calls throws, the catch block runs
InitThrow(s) ==
    /\ pc[s] \in {"fetchRequest", "fetchMessages"}
    /\ errorMsg' = [errorMsg EXCEPT ![s] = "loadfail"]
    /\ loading' = [loading EXCEPT ![s] = FALSE]
    /\ pc' = [pc EXCEPT ![s] = "mounted"]
    /\ UNCHANGED <<backendVars, formVars, sideVars, sessUser, initRequest, view, status,
                   updatingStatus, newMessage, sending, updCall, sendCall>>

\* the user leaves the screen.  Calls still in flight reach the backend all
\* the same and their setState calls no longer show, so the screen is taken
\* to be left once they have drained.
Leave(s) ==
    /\ pc[s] = "mounted"
    /\ updCall[s] = NoCall /\ sendCall[s] = NoCall
    /\ pc' = [pc EXCEPT ![s] = "closed"]
    /\ sessUser' = [sessUser EXCEPT ![s] = NoUser]
    /\ FreshScreen(s)
    /\ UNCHANGED <<backendVars, formVars, sideVars, updCall, sendCall>>

\* onChange of the textarea
TypeMessage(s, text) ==
    /\ SendFormRendered(s)
    /\ text # newMessage[s]
    /\ newMessage' = [newMessage EXCEPT ![s] = text]
    /\ UNCHANGED <<backendVars, formVars, sideVars, pc, sessUser, initRequest, loading,
                   errorMsg, view, status, updatingStatus, sending, updCall,
                   sendCall>>

\* handleClose passing a value that is not a Status
NextStatusTypo(a) ==
    CASE a = "accept" -> "accepted"
      [] a = "reject" -> "rejected"
      [] a = "close" -> "close"

\* the status each button's handler passes to updateStatus
NextStatus(a) ==
    CASE a = "accept" -> "accepted"
      [] a = "reject" -> "rejected"
      [] a = "close" -> "closed"

\* handleAccept / handleReject / handleClose: updateStatus up to its await
HandleStatusClick(s, a) ==
    /\ StatusButtonEnabled(s, a)
    /\ view[s] # NoView
    /\ updatingStatus' = [updatingStatus EXCEPT ![s] = TRUE]
    /\ errorMsg' = [errorMsg EXCEPT ![s] = Null]
    /\ updCall' = [updCall EXCEPT ![s] =
                     [next |-> NextStatus(a), view |-> view[s]]]
    /\ UNCHANGED <<backendVars, formVars, sideVars, pc, sessUser, initRequest, loading,
                   view, status, newMessage, sending, sendCall>>

HandleAccept(s) == HandleStatusClick(s, "accept")
HandleReject(s) == HandleStatusClick(s, "reject")
HandleClose(s) == HandleStatusClick(s, "close")

\* updateStatus after its await, no error: the backend has applied the write
UpdateStatusOk(s) ==
    LET call == updCall[s]
    IN  /\ call # NoCall
        /\ request' = ApplyStatusUpdate(request, call.next)
        /\ status' = [status EXCEPT ![s] = call.next]
        /\ view' = [view EXCEPT ![s] =
                      [call.view EXCEPT !.request.status = call.next]]
        /\ updatingStatus' = [updatingStatus EXCEPT ![s] = FALSE]
        /\ updCall' = [updCall EXCEPT ![s] = NoCall]
        /\ UNCHANGED <<messages, formVars, sideVars, pc, sessUser, initRequest, loading,
                       errorMsg, newMessage, sending, sendCall>>

\* the error branch of updateStatus without setUpdatingStatus(false)
UpdateStatusErrorStaysBusy(s) ==
    /\ updCall[s] # NoCall
    /\ errorMsg' = [errorMsg EXCEPT ![s] = "statusfail"]
    /\ updCall' = [updCall EXCEPT ![s] = NoCall]
    /\ UNCHANGED <<backendVars, formVars, sideVars, pc, sessUser, initRequest, loading,
                   view, status, newMessage, sending, sendCall, updatingStatus>>

\* updateStatus after its await, error
UpdateStatusError(s) ==
    /\ updCall[s] # NoCall
    /\ errorMsg' = [errorMsg EXCEPT ![s] = "statusfail"]
    /\ updatingStatus' = [updatingStatus EXCEPT ![s] = FALSE]
    /\ updCall' = [updCall EXCEPT ![s] = NoCall]
    /\ UNCHANGED <<backendVars, formVars, sideVars, pc, sessUser, initRequest, loading,
                   view, status, newMessage, sending, sendCall>>

\* handleSendMessage with the draft sent as typed
HandleSendMessageUntrimmedUpTo(s, cap) ==
    /\ SendButtonEnabled(s)
    /\ view[s] # NoView /\ view[s].currentUserId # NoUser
    /\ trim(newMessage[s]) # <<>>
    /\ Len(messages) + InFlightInserts < cap
    /\ sending' = [sending EXCEPT ![s] = TRUE]
    /\ errorMsg' = [errorMsg EXCEPT ![s] = Null]
    /\ sendCall' = [sendCall EXCEPT ![s] =
                      [body |-> newMessage[s], view |-> view[s]]]
    /\ UNCHANGED <<backendVars, formVars, sideVars, pc, sessUser, initRequest, loading,
                   view, status, updatingStatus, newMessage, updCall>>

\* handleSendMessage up to its await, while the table holds fewer than cap
\* rows
HandleSendMessageUpTo(s, cap) ==
    /\ SendButtonEnabled(s)
    /\ view[s] # NoView /\ view[s].currentUserId # NoUser
    /\ trim(newMessage[s]) # <<>>
    /\ Len(messages) + InFlightInserts < cap
    /\ sending' = [sending EXCEPT ![s] = TRUE]
    /\ errorMsg' = [errorMsg EXCEPT ![s] = Null]
    /\ sendCall' = [sendCall EXCEPT ![s] =
                      [body |-> trim(newMessage[s]), view |-> view[s]]]
    /\ UNCHANGED <<backendVars, formVars, sideVars, pc, sessUser, initRequest, loading,
                   view, status, updatingStatus, newMessage, updCall>>

HandleSendMessage(s) == HandleSendMessageUpTo(s, MaxMessages)

\* handleSendMessage after its await, the insert returned the new row
SendMessageOk(s) ==
    LET call == sendCall[s]
        row == NewMessageRow(call.view.currentUserId, call.body)
    IN  /\ call # NoCall
        /\ messages' = Append(messages, row)
        /\ view' = [view EXCEPT ![s] =
                      [call.view EXCEPT !.messages = Append(@, row)]]
        /\ newMessage' = [newMessage EXCEPT ![s] = <<>>]
        /\ sending' = [sending EXCEPT ![s] = FALSE]
        /\ sendCall' = [sendCall EXCEPT ![s] = NoCall]
        /\ UNCHANGED <<request, formVars, sideVars, pc, sessUser, initRequest, loading,
                       errorMsg, status, updatingStatus, updCall>>

\* handleSendMessage after its await, error or no data
SendMessageError(s) ==
    /\ sendCall[s] # NoCall
    /\ errorMsg' = [errorMsg EXCEPT ![s] = "sendfail"]
    /\ sending' = [sending EXCEPT ![s] = FALSE]
    /\ sendCall' = [sendCall EXCEPT ![s] = NoCall]
    /\ UNCHANGED <<backendVars, formVars, sideVars, pc, sessUser, initRequest, loading,
                   view, status, updatingStatus, newMessage, updCall>>

\* ------------------------------------------------------------ specification
Next ==
    \/ \E variant \in FormVariants, creatorId \in CreatorIds,
          uid \in ClientIds, msg \in Drafts :
            FormSubmitRequest(variant, creatorId, uid, msg)
    \/ \E variant \in FormVariants, msg \in Drafts :
            FormSubmitRequestError(variant, msg)
    \/ FormInsertMessage
    \/ FormInsertMessageError
    \/ \E s \in Sessions, u \in Users \cup {NoUser} : Open(s, u)
    \/ \E s \in Sessions : InitFetchRequest(s)
    \/ \E s \in Sessions : InitFetchRequestError(s)
    \/ \E s \in Sessions : InitFetchMessages(s)
    \/ \E s \in Sessions : InitFetchMessagesError(s)
    \/ \E s \in Sessions : InitThrow(s)
    \/ \E s \in Sessions : Leave(s)
    \/ \E s \in Sessions, text \in Drafts : TypeMessage(s, text)
    \/ \E s \in Sessions : HandleAccept(s)
    \/ \E s \in Sessions : HandleReject(s)
    \/ \E s \in Sessions : HandleClose(s)
    \/ \E s \in Sessions : UpdateStatusOk(s)
    \/ \E s \in Sessions : UpdateStatusError(s)
    \/ \E s \in Sessions : HandleSendMessage(s)
    \/ \E s \in Sessions : SendMessageOk(s)
    \/ \E s \in Sessions : SendMessageError(s)

Spec == Init /\ [][Next]_vars

\* The message thread followed further: loads, sends and accepts of the
\* screens with no failing call, and a longer table.

ThreadDrafts == {<<Space, "a", Space>>}

NextThread ==
    \/ \E variant \in FormVariants, creatorId \in CreatorIds,
          uid \in ClientIds, msg \in ThreadDrafts :
            FormSubmitRequest(variant, creatorId, uid, msg)
    \/ FormInsertMessage
    \/ FormInsertMessageError
    \/ \E s \in Sessions, u \in Users \cup {NoUser} : Open(s, u)
    \/ \E s \in Sessions : InitFetchRequest(s)
    \/ \E s \in Sessions : InitFetchMessages(s)
    \/ \E s \in Sessions : Leave(s)
    \/ \E s \in Sessions, text \in ThreadDrafts : TypeMessage(s, text)
    \/ \E s \in Sessions : HandleAccept(s)
    \/ \E s \in Sessions : UpdateStatusOk(s)
    \/ \E s \in Sessions : HandleSendMessageUpTo(s, MaxThread)
    \/ \E s \in Sessions : SendMessageOk(s)

SpecThread == Init /\ [][NextThread]_vars

\* One detail screen followed alone, with every outcome of every call.
OneTab == {"tab1"}

NextOneTab ==
    \/ \E variant \in FormVariants, creatorId \in CreatorIds,
          uid \in ClientIds, msg \in Drafts :
            FormSubmitRequest(variant, creatorId, uid, msg)
    \/ \E variant \in FormVariants, msg \in Drafts :
            FormSubmitRequestError(variant, msg)
    \/ FormInsertMessage
    \/ FormInsertMessageError
    \/ \E s \in OneTab, u \in Users \cup {NoUser} : Open(s, u)
    \/ \E s \in OneTab : InitFetchRequest(s)
    \/ \E s \in OneTab : InitFetchRequestError(s)
    \/ \E s \in OneTab : InitFetchMessages(s)
    \/ \E s \in OneTab : InitFetchMessagesError(s)
    \/ \E s \in OneTab : InitThrow(s)
    \/ \E s \in OneTab : Leave(s)
    \/ \E s \in OneTab, text \in Drafts : TypeMessage(s, text)
    \/ \E s \in OneTab : HandleAccept(s)
    \/ \E s \in OneTab : HandleReject(s)
    \/ \E s \in OneTab : HandleClose(s)
    \/ \E s \in OneTab : UpdateStatusOk(s)
    \/ \E s \in OneTab : UpdateStatusError(s)
    \/ \E s \in OneTab : HandleSendMessageUpTo(s, MaxSends)
    \/ \E s \in OneTab : SendMessageOk(s)
    \/ \E s \in OneTab : SendMessageError(s)

SpecOneTab == Init /\ [][NextOneTab]_vars

\* every awaited call of the screen is answered, with data or with an error
AnswerUpdate(s) == UpdateStatusOk(s) \/ UpdateStatusError(s)
AnswerSend(s) == SendMessageOk(s) \/ SendMessageError(s)

SpecOneTabFair ==
    /\ Init /\ [][NextOneTab]_vars
    /\ \A s \in OneTab : WF_vars(AnswerUpdate(s)) /\ WF_vars(AnswerSend(s))

\* ------------------------------------------------------------ works
\* Work w1 of creator u1 and the three screens that show it.  The submit
\* handler of NewWorkPage leaves is_public to the table's default, so the
\* row starts with any of the values its type allows.
InsertWork(isPublic) ==
    /\ workRow = NoRow
    /\ workRow' = [id |-> "w1", creator_id |-> "u1", is_public |-> isPublic]
    /\ UNCHANGED <<workDetail, worksPage, profileDetail, detailVars,
                   submitVars, likeVars, profileVars, moreVars>>

\* the screen is mounted in a browser whose logged-in user is u (or nobody)
WorkDetailOpen(u) ==
    /\ workDetail.pc = "closed"
    /\ workDetail' = [FreshWorkDetail EXCEPT !.user = u]
    /\ UNCHANGED <<workRow, worksPage, profileDetail, detailVars, submitVars, likeVars, profileVars, moreVars>>

\* init: the works select answered with the row; owner test
WorkDetailInit ==
    /\ workDetail.pc = "init"
    /\ workRow # NoRow
    /\ workDetail' = [workDetail EXCEPT
                        !.pc = "mounted",
                        !.work = workRow,
                        !.loaded = workRow.is_public,
                        !.isOwner = (workDetail.user # NoUser
                                        /\ workDetail.user = workRow.creator_id),
                        !.loading = FALSE]
    /\ UNCHANGED <<workRow, worksPage, profileDetail, detailVars, submitVars, likeVars, profileVars, moreVars>>

\* init: the works select answered with an error or without a row
WorkDetailInitError ==
    /\ workDetail.pc = "init"
    /\ workDetail' = [workDetail EXCEPT !.pc = "mounted",
                                        !.errorMsg = "notfound",
                                        !.loading = FALSE]
    /\ UNCHANGED <<workRow, worksPage, profileDetail, detailVars, submitVars, likeVars, profileVars, moreVars>>

\* the part of WorkDetailPage below the loading and the error early returns
WorkRendered ==
    /\ workDetail.pc = "mounted"
    /\ ~workDetail.loading
    /\ ~(workDetail.errorMsg # Null \/ workDetail.work = NoRow)

\* const isPublic = work.is_public ?? true
isPublic == IF workDetail.work.is_public = Null THEN "true"
            ELSE workDetail.work.is_public

\* JavaScript's !value for a boolean | null
Not(value) == IF value = "true" THEN "false" ELSE "true"

\* handleToggleVisibility up to its await; the button is rendered for the
\* owner only
HandleToggleVisibility ==
    /\ WorkRendered
    /\ workDetail.isOwner
    /\ ~workDetail.updatingVisibility
    /\ workDetail.toggled < MaxToggles
    /\ workDetail' = [workDetail EXCEPT
                        !.updatingVisibility = TRUE,
                        !.errorMsg = Null,
                        !.call = [nextVisible |-> Not(workDetail.work.is_public),
                                  work |-> workDetail.work]]
    /\ UNCHANGED <<workRow, worksPage, profileDetail, detailVars, submitVars, likeVars, profileVars, moreVars>>

\* works.update({is_public: nextVisible}).eq('id', work.id) succeeded
ToggleVisibilityOk ==
    LET call == workDetail.call
    IN  /\ workDetail.pc = "mounted"
        /\ call # NoCall
        /\ workRow' = [workRow EXCEPT !.is_public = call.nextVisible]
        /\ workDetail' = [workDetail EXCEPT
                            !.work = [call.work EXCEPT
                                        !.is_public = call.nextVisible],
                            !.updatingVisibility = FALSE,
                            !.call = NoCall,
                            !.toggled = @ + 1]
        /\ UNCHANGED <<worksPage, profileDetail, detailVars, submitVars, likeVars, profileVars, moreVars>>

\* the update answered with an error
ToggleVisibilityError ==
    /\ workDetail.pc = "mounted"
    /\ workDetail.call # NoCall
    /\ workDetail' = [workDetail EXCEPT !.errorMsg = "visibilityfail",
                                        !.updatingVisibility = FALSE,
                                        !.call = NoCall]
    /\ UNCHANGED <<workRow, worksPage, profileDetail, detailVars, submitVars, likeVars, profileVars, moreVars>>

WorkDetailLeave ==
    /\ workDetail.pc = "mounted"
    /\ workDetail.call = NoCall
    /\ workDetail' = ClosedWorkDetail
    /\ UNCHANGED <<workRow, worksPage, profileDetail, detailVars, submitVars, likeVars, profileVars, moreVars>>

\* the rows .eq('is_public', true) lets through
SelectPublicWorks ==
    IF workRow # NoRow /\ workRow.is_public = "true" THEN {workRow} ELSE {}

\* WorksPage.fetchData: the list of public works, the same for every visitor
WorksPageFetch ==
    /\ worksPage' = [pc |-> "mounted", works |-> SelectPublicWorks]
    /\ UNCHANGED <<workRow, workDetail, profileDetail, detailVars, submitVars, likeVars, profileVars, moreVars>>

\* the works of creator u1 as ProfileDetailPage keeps them for a visitor
ProfileWorks(isMe) ==
    LET worksData == IF workRow # NoRow THEN {workRow} ELSE {}
    IN  IF isMe THEN worksData
        ELSE {w \in worksData : w.is_public = "true"}

\* ProfileDetailPage.init on the profile of creator u1, visitor u
ProfileDetailInit(u) ==
    /\ profileDetail' = [pc |-> "mounted", user |-> u, isMe |-> (u = "u1"),
                         works |-> ProfileWorks(u = "u1")]
    /\ UNCHANGED <<workRow, workDetail, worksPage, detailVars, submitVars, likeVars, profileVars, moreVars>>

NextWork ==
    \/ \E v \in Visibility : InsertWork(v)
    \/ \E u \in Users \cup {NoUser} : WorkDetailOpen(u)
    \/ WorkDetailInit
    \/ WorkDetailInitError
    \/ HandleToggleVisibility
    \/ ToggleVisibilityOk
    \/ ToggleVisibilityError
    \/ WorkDetailLeave
    \/ WorksPageFetch
    \/ \E u \in Users \cup {NoUser} : ProfileDetailInit(u)

SpecWork == Init /\ [][NextWork]_vars

\* ------------------------------------------------------------ like button
\* One WorkLikeButton on work w1 of creator u1, and the likes other users
\* give to the same work elsewhere.
LikeCreatorId == "u1"

\* `/works/${workId}` of work w1 and `/auth/login?next=${path}`
WorkRoute == <<"/works/", "w1">>
LoginRoute(next) == <<"/auth/login?next=">> \o next

\* the button is mounted in a browser whose logged-in user is u (or nobody)
LikeMount(u) ==
    /\ likeButton.pc = "closed"
    /\ likeButton' = [FreshLikeButton EXCEPT !.sessionUser = u]
    /\ UNCHANGED <<likesTable, detailVars, submitVars, workVars, profileVars, moreVars>>

\* the rows of likesTable that belong to uid
LikeRowsOf(uid) == {i \in 1..Len(likesTable) : likesTable[i] = uid}

\* init: getUser, then the work_likes select answered with rows and count
LikeInit ==
    /\ likeButton.pc = "init"
    /\ likeButton' = [likeButton EXCEPT
                        !.pc = "mounted",
                        !.currentUserId = likeButton.sessionUser,
                        !.likeCount = Len(likesTable),
                        !.liked = (likeButton.sessionUser # NoUser
                                    /\ LikeRowsOf(likeButton.sessionUser) # {}),
                        !.loaded =
                            [likeCount |-> Len(likesTable),
                             liked |-> (likeButton.sessionUser # NoUser
                                  /\ LikeRowsOf(likeButton.sessionUser) # {})],
                        !.loading = FALSE]
    /\ UNCHANGED <<likesTable, detailVars, submitVars, workVars, profileVars, moreVars>>

\* init: the work_likes select answered with an error, or a call threw
LikeInitError ==
    /\ likeButton.pc = "init"
    /\ likeButton' = [likeButton EXCEPT
                        !.pc = "mounted",
                        !.currentUserId = likeButton.sessionUser,
                        !.errorMsg = "likesfail",
                        !.loading = FALSE]
    /\ UNCHANGED <<likesTable, detailVars, submitVars, workVars, profileVars, moreVars>>

isOwnerOfLikedWork == likeButton.currentUserId = LikeCreatorId

\* disabled={loading || toggling || isOwner}
LikeButtonEnabled ==
    /\ likeButton.pc = "mounted"
    /\ ~(likeButton.loading \/ likeButton.toggling \/ isOwnerOfLikedWork)

\* handleToggleLike up to its await
HandleToggleLike ==
    /\ LikeButtonEnabled
    /\ IF likeButton.currentUserId = NoUser
       THEN likeButton' = [likeButton EXCEPT !.errorMsg = Null,
                                             !.route = LoginRoute(WorkRoute)]
       ELSE /\ ~likeButton.liked => Len(likesTable) < MaxLikes
            /\ likeButton.toggled < MaxToggles
            /\ likeButton' = [likeButton EXCEPT
                                !.errorMsg = Null,
                                !.toggling = TRUE,
                                !.call = [op |-> IF likeButton.liked
                                                 THEN "delete" ELSE "insert",
                                          user_id |-> likeButton.currentUserId]]
    /\ UNCHANGED <<likesTable, detailVars, submitVars, workVars, profileVars, moreVars>>

\* the rows left by work_likes.delete().eq('work_id', ...).eq('user_id', uid)
RECURSIVE DeleteLikes(_, _)
DeleteLikes(rows, uid) ==
    IF rows = <<>> THEN <<>>
    ELSE IF Head(rows) = uid THEN DeleteLikes(Tail(rows), uid)
         ELSE <<Head(rows)>> \o DeleteLikes(Tail(rows), uid)

\* the count after a successful like that adds two
LikeCountAfterDouble(prev, op) ==
    IF op = "insert" THEN prev + 2
    ELSE IF prev - 1 > 0 THEN prev - 1 ELSE 0

\* setLikeCount((prev) => prev + 1) and
\* setLikeCount((prev) => Math.max(0, prev - 1))
LikeCountAfter(prev, op) ==
    IF op = "insert" THEN prev + 1
    ELSE IF prev - 1 > 0 THEN prev - 1 ELSE 0

\* the insert or the delete succeeded
ToggleLikeOk ==
    LET call == likeButton.call
    IN  /\ likeButton.pc = "mounted"
        /\ call # NoCall
        /\ likesTable' = IF call.op = "insert"
                         THEN Append(likesTable, call.user_id)
                         ELSE DeleteLikes(likesTable, call.user_id)
        /\ likeButton' = [likeButton EXCEPT
                            !.liked = (call.op = "insert"),
                            !.likeCount = LikeCountAfter(@, call.op),
                            !.toggling = FALSE,
                            !.call = NoCall,
                            !.toggled = @ + 1]
        /\ UNCHANGED <<detailVars, submitVars, workVars, profileVars, moreVars>>

\* the error branch without setToggling(false)
ToggleLikeErrorStaysToggling ==
    /\ likeButton.pc = "mounted"
    /\ likeButton.call # NoCall
    /\ likeButton' = [likeButton EXCEPT !.errorMsg = "togglefail",
                                        !.call = NoCall]
    /\ UNCHANGED <<likesTable, detailVars, submitVars, workVars, profileVars, moreVars>>

\* the insert or the delete answered with an error, or threw
ToggleLikeError ==
    /\ likeButton.pc = "mounted"
    /\ likeButton.call # NoCall
    /\ likeButton' = [likeButton EXCEPT !.errorMsg = "togglefail",
                                        !.toggling = FALSE,
                                        !.call = NoCall]
    /\ UNCHANGED <<likesTable, detailVars, submitVars, workVars, profileVars, moreVars>>

LikeUnmount ==
    /\ likeButton.pc = "mounted"
    /\ likeButton.call = NoCall
    /\ likeButton' = ClosedLikeButton
    /\ UNCHANGED <<likesTable, detailVars, submitVars, workVars, profileVars, moreVars>>

\* user u3 likes or unlikes the work on a screen of its own
OtherUserLikes ==
    /\ LikeRowsOf("u3") = {}
    /\ Len(likesTable) < MaxLikes
    /\ likesTable' = Append(likesTable, "u3")
    /\ UNCHANGED <<likeButton, detailVars, submitVars, workVars, profileVars, moreVars>>

OtherUserUnlikes ==
    /\ LikeRowsOf("u3") # {}
    /\ likesTable' = DeleteLikes(likesTable, "u3")
    /\ UNCHANGED <<likeButton, detailVars, submitVars, workVars, profileVars, moreVars>>

NextLike ==
    \/ \E u \in {"u1", "u2", NoUser} : LikeMount(u)
    \/ LikeInit
    \/ LikeInitError
    \/ HandleToggleLike
    \/ ToggleLikeOk
    \/ ToggleLikeError
    \/ LikeUnmount
    \/ OtherUserLikes
    \/ OtherUserUnlikes

SpecLike == Init /\ [][NextLike]_vars

\* ------------------------------------------------------------ profiles
\* Signup and the two profile edit forms: ProfileEditPage of
\* src/app/profile/edit/page.tsx and the one of src/unnamed/part_007.
ProfileVariants == {"ProfileEditPage", "ProfileEditPagePart007"}

\* text || null
OrNull(text) == IF text = <<>> THEN NullText ELSE text

\* handleSignup: auth.signUp succeeded and the profiles row is inserted with
\* the role picked on the form; "e" stands for the email address
HandleSignup(u, role, displayName) ==
    /\ profilesTable[u] = NoRow
    /\ profilesTable' =
          [profilesTable EXCEPT
              ![u] = [id |-> u,
                      display_name |-> IF displayName # <<>>
                                       THEN displayName ELSE <<"e">>,
                      role |-> role, bio |-> NullText, area |-> NullText]]
    /\ UNCHANGED <<profileEdit, detailVars, submitVars, workVars, likeVars, moreVars>>

\* init of either form: the logged-in user's row fills the fields
ProfileEditInit(variant, u) ==
    /\ profileEdit.pc = "closed"
    /\ profilesTable[u] # NoRow
    /\ profileEdit' =
          [FreshProfileEdit EXCEPT
              !.pc = "ready", !.variant = variant, !.user = u,
              !.profile = profilesTable[u],
              !.display_name = IF profilesTable[u].display_name = NullText
                               THEN <<>> ELSE profilesTable[u].display_name,
              !.bio = IF profilesTable[u].bio = NullText
                      THEN <<>> ELSE profilesTable[u].bio,
              !.area = IF profilesTable[u].area = NullText
                       THEN <<>> ELSE profilesTable[u].area]
    /\ UNCHANGED <<profilesTable, detailVars, submitVars, workVars, likeVars, moreVars>>

\* the user fills the fields
ProfileEditType(name, bio, area) ==
    /\ profileEdit.pc = "ready"
    /\ profileEdit' = [profileEdit EXCEPT !.display_name = name,
                                          !.bio = bio, !.area = area]
    /\ UNCHANGED <<profilesTable, detailVars, submitVars, workVars, likeVars, moreVars>>

\* an update payload that carries the role field of the form state, which
\* is null when the loaded row had none
ProfilePayloadWithRole(f) ==
    [display_name |-> trim(f.display_name), bio |-> trim(f.bio),
     area |-> trim(f.area), role |-> Null]

\* the update payload of handleSave
ProfilePayload(f) ==
    IF f.variant = "ProfileEditPage"
    THEN [display_name |-> trim(f.display_name), bio |-> trim(f.bio),
          area |-> trim(f.area)]
    ELSE IF f.profile.role = "creator"
         THEN [display_name |-> trim(f.display_name),
               bio |-> OrNull(trim(f.bio)), area |-> OrNull(trim(f.area))]
         ELSE [display_name |-> trim(f.display_name),
               bio |-> OrNull(trim(f.bio))]

\* handleSave up to its await
HandleSave ==
    /\ profileEdit.pc = "ready"
    /\ ~profileEdit.saving
    /\ IF trim(profileEdit.display_name) = <<>>
       THEN profileEdit' = [profileEdit EXCEPT !.errorMsg = "required",
                                               !.successMsg = Null]
       ELSE profileEdit' = [profileEdit EXCEPT
                               !.pc = "update", !.saving = TRUE,
                               !.errorMsg = Null, !.successMsg = Null,
                               !.payload = ProfilePayload(profileEdit)]
    /\ UNCHANGED <<profilesTable, detailVars, submitVars, workVars, likeVars, moreVars>>

\* profiles.update(payload).eq('id', ...): the columns of the payload are
\* written, the others stay
ApplyProfileUpdate(row, payload) ==
    [col \in DOMAIN row |->
        IF col \in DOMAIN payload THEN payload[col] ELSE row[col]]

\* the update succeeded; the form pushes the profile route
ProfileSaveOk ==
    /\ profileEdit.pc = "update"
    /\ profilesTable' =
          [profilesTable EXCEPT
              ![profileEdit.user] = ApplyProfileUpdate(@, profileEdit.payload)]
    /\ profileEdit' = ClosedProfileEdit
    /\ UNCHANGED <<detailVars, submitVars, workVars, likeVars, moreVars>>

\* the update answered with an error
ProfileSaveError ==
    /\ profileEdit.pc = "update"
    /\ profileEdit' = [profileEdit EXCEPT !.pc = "ready", !.saving = FALSE,
                                          !.errorMsg = "savefail",
                                          !.payload = NoCall]
    /\ UNCHANGED <<profilesTable, detailVars, submitVars, workVars, likeVars, moreVars>>

\* handleCancel, or the user leaves the form
ProfileEditLeave ==
    /\ profileEdit.pc = "ready"
    /\ profileEdit' = ClosedProfileEdit
    /\ UNCHANGED <<profilesTable, detailVars, submitVars, workVars, likeVars, moreVars>>

NextProfile ==
    \/ \E u \in ProfileUsers, role \in Roles, name \in {<<>>, <<"n">>} :
          HandleSignup(u, role, name)
    \/ \E variant \in ProfileVariants, u \in ProfileUsers :
          ProfileEditInit(variant, u)
    \/ \E name \in Names, bio \in Bios, area \in Areas :
          ProfileEditType(name, bio, area)
    \/ HandleSave
    \/ ProfileSaveOk
    \/ ProfileSaveError
    \/ ProfileEditLeave

SpecProfile == Init /\ [][NextProfile]_vars

\* ------------------------------------------------------------ header
\* AppHeader in the browser of one visitor.  The rows it counts over: three
\* requests (u1 is creator of r1, client of r2 and no party to r3) and the
\* messages the parties send on them.
HeaderUsers == {"u1"}
InboxRequests ==
    {[id |-> "r1", creator_id |-> "u1", client_id |-> "u2"],
     [id |-> "r2", creator_id |-> "u2", client_id |-> "u1"],
     [id |-> "r3", creator_id |-> "u2", client_id |-> "u3"]}
\* the messages rows that may be written: on r1 one from each party and one
\* already read, on r2 and on r3 one from u2
InboxMessages ==
    {[id |-> 1, request_id |-> "r1", sender_id |-> "u2", is_read |-> FALSE],
     [id |-> 2, request_id |-> "r1", sender_id |-> "u1", is_read |-> FALSE],
     [id |-> 3, request_id |-> "r1", sender_id |-> "u2", is_read |-> TRUE],
     [id |-> 4, request_id |-> "r2", sender_id |-> "u2", is_read |-> FALSE],
     [id |-> 5, request_id |-> "r3", sender_id |-> "u2", is_read |-> FALSE]}

\* the state of one run of fetchHeaderInfo; erred and dirty record that one
\* of its calls answered with an error and that a row was written while
\* it ran
FreshFetch ==
    [pc |-> "getUser", userId |-> NoUser, asCreator |-> {}, asClient |-> {},
     erred |-> FALSE, dirty |-> FALSE]

\* the sequence without its i-th element
RemoveAt(seq, i) == SubSeq(seq, 1, i - 1) \o SubSeq(seq, i + 1, Len(seq))

MarkDirty(fetches) == [i \in DOMAIN fetches |-> [fetches[i] EXCEPT !.dirty = TRUE]]

\* another client writes a requests row
InboxInsertRequest(r) ==
    /\ r \notin inbox.requests
    /\ inbox' = [inbox EXCEPT !.requests = @ \cup {r}]
    /\ header' = [header EXCEPT !.fetches = MarkDirty(@)]
    /\ UNCHANGED notHeader

\* a party of a stored request writes a messages row; is_read is the
\* table's concern, the forms and the detail screen never send it
InboxInsertMessage(m) ==
    /\ m \notin inbox.messages
    /\ \E r \in inbox.requests :
          r.id = m.request_id /\ m.sender_id \in {r.creator_id, r.client_id}
    /\ inbox' = [inbox EXCEPT !.messages = @ \cup {m}]
    /\ header' = [header EXCEPT !.fetches = MarkDirty(@)]
    /\ UNCHANGED notHeader

\* the visitor logs in or out; the header is not told
HeaderLogin(u) ==
    /\ header.sessionUser = NoUser
    /\ header' = [header EXCEPT !.sessionUser = u]
    /\ UNCHANGED <<inbox, notHeader>>

HeaderLogout ==
    /\ header.sessionUser # NoUser
    /\ header' = [header EXCEPT !.sessionUser = NoUser]
    /\ UNCHANGED <<inbox, notHeader>>

\* the effect runs on mount and on every change of pathname and starts
\* fetchHeaderInfo; runs still in flight are not cancelled
HeaderNavigate ==
    /\ Len(header.fetches) < MaxFetches
    /\ header' = [header EXCEPT !.fetches = Append(@, FreshFetch)]
    /\ UNCHANGED <<inbox, notHeader>>

\* step 1, auth.getUser: no user resets profile and count and returns
HeaderGetUser(i) ==
    LET f == header.fetches[i]
    IN  /\ i \in DOMAIN header.fetches
        /\ f.pc = "getUser"
        /\ IF header.sessionUser = NoUser
           THEN header' = [header EXCEPT !.profile = Null, !.unreadCount = 0,
                                         !.fetches = RemoveAt(@, i)]
           ELSE header' = [header EXCEPT
                             !.fetches[i].pc = "profile",
                             !.fetches[i].userId = header.sessionUser]
        /\ UNCHANGED <<inbox, notHeader>>

\* auth.getUser answered with an error and no user
HeaderGetUserError(i) ==
    /\ i \in DOMAIN header.fetches
    /\ header.fetches[i].pc = "getUser"
    /\ header.sessionUser # NoUser
    /\ header' = [header EXCEPT !.profile = Null, !.unreadCount = 0,
                                  !.fetches = RemoveAt(@, i)]
    /\ UNCHANGED <<inbox, notHeader>>

\* step 2, the profiles select
HeaderProfile(i) ==
    /\ i \in DOMAIN header.fetches
    /\ header.fetches[i].pc = "profile"
    /\ header' = [header EXCEPT !.profile = header.fetches[i].userId,
                                  !.fetches[i].pc = "asCreator"]
    /\ UNCHANGED <<inbox, notHeader>>

HeaderProfileError(i) ==
    /\ i \in DOMAIN header.fetches
    /\ header.fetches[i].pc = "profile"
    /\ header' = [header EXCEPT !.profile = Null,
                                  !.fetches[i].pc = "asCreator",
                                  !.fetches[i].erred = TRUE]
    /\ UNCHANGED <<inbox, notHeader>>

\* requests.select('id').eq(column, userId)
SelectRequestIds(column, userId) ==
    {r.id : r \in {q \in inbox.requests : q[column] = userId}}

\* step 3, first select: the requests the user is creator of
HeaderAsCreator(i) ==
    /\ i \in DOMAIN header.fetches
    /\ header.fetches[i].pc = "asCreator"
    /\ header' = [header EXCEPT
                     !.fetches[i].pc = "asClient",
                     !.fetches[i].asCreator =
                         SelectRequestIds("creator_id", header.fetches[i].userId)]
    /\ UNCHANGED <<inbox, notHeader>>

\* the select answered with an error: logged, asCreator ?? [] goes on
HeaderAsCreatorError(i) ==
    /\ i \in DOMAIN header.fetches
    /\ header.fetches[i].pc = "asCreator"
    /\ header' = [header EXCEPT !.fetches[i].pc = "asClient",
                                  !.fetches[i].erred = TRUE]
    /\ UNCHANGED <<inbox, notHeader>>

\* step 3 from the answer of the second select on: requestIds is the union;
\* an empty one sets the count to 0 and returns
HeaderAfterAsClient(i, asClient, erred) ==
    LET f == header.fetches[i]
        requestIds == f.asCreator \cup asClient
    IN  /\ i \in DOMAIN header.fetches
        /\ f.pc = "asClient"
        /\ IF requestIds = {}
           THEN header' = [header EXCEPT !.unreadCount = 0,
                                         !.fetches = RemoveAt(@, i)]
           ELSE header' = [header EXCEPT
                             !.fetches[i].pc = "unread",
                             !.fetches[i].asClient = asClient,
                             !.fetches[i].erred = f.erred \/ erred]
        /\ UNCHANGED <<inbox, notHeader>>

HeaderAsClient(i) ==
    /\ i \in DOMAIN header.fetches
    /\ HeaderAfterAsClient(
            i, SelectRequestIds("client_id", header.fetches[i].userId), FALSE)

HeaderAsClientError(i) == HeaderAfterAsClient(i, {}, TRUE)

\* the unread select with the test on sender_id left out
SelectUnreadAnySender(requestIds, userId) ==
    {m \in inbox.messages :
        m.request_id \in requestIds /\ m.is_read = FALSE}

\* messages.select('id').in('request_id', requestIds).eq('is_read', false)
\* .neq('sender_id', userId)
SelectUnread(requestIds, userId) ==
    {m \in inbox.messages :
        /\ m.request_id \in requestIds
        /\ m.is_read = FALSE
        /\ m.sender_id # userId}

\* step 4, the unread select answered with its rows
HeaderUnread(i) ==
    LET f == header.fetches[i]
    IN  /\ i \in DOMAIN header.fetches
        /\ f.pc = "unread"
        /\ header' = [header EXCEPT
                         !.unreadCount =
                             Cardinality(SelectUnread(f.asCreator \cup f.asClient,
                                                      f.userId)),
                         !.fetches = RemoveAt(@, i)]
        /\ UNCHANGED <<inbox, notHeader>>

\* the unread select answered with an error: logged, the count is kept
HeaderUnreadError(i) ==
    /\ i \in DOMAIN header.fetches
    /\ header.fetches[i].pc = "unread"
    /\ header' = [header EXCEPT !.fetches = RemoveAt(@, i)]
    /\ UNCHANGED <<inbox, notHeader>>

NextHeader ==
    \/ \E r \in InboxRequests : InboxInsertRequest(r)
    \/ \E m \in InboxMessages : InboxInsertMessage(m)
    \/ \E u \in HeaderUsers : HeaderLogin(u)
    \/ HeaderLogout
    \/ HeaderNavigate
    \/ \E i \in 1..MaxFetches : HeaderGetUser(i)
    \/ \E i \in 1..MaxFetches : HeaderGetUserError(i)
    \/ \E i \in 1..MaxFetches : HeaderProfile(i)
    \/ \E i \in 1..MaxFetches : HeaderProfileError(i)
    \/ \E i \in 1..MaxFetches : HeaderAsCreator(i)
    \/ \E i \in 1..MaxFetches : HeaderAsCreatorError(i)
    \/ \E i \in 1..MaxFetches : HeaderAsClient(i)
    \/ \E i \in 1..MaxFetches : HeaderAsClientError(i)
    \/ \E i \in 1..MaxFetches : HeaderUnread(i)
    \/ \E i \in 1..MaxFetches : HeaderUnreadError(i)

SpecHeader == Init /\ [][NextHeader]_vars

\* ------------------------------------------------------------ requests list
\* RequestsPage over two requests rows: creator u1 received r1 from client
\* u2 and sent r2 to creator u3; u2 has received none.
ListUsers == {"u1", "u2"}
ListRequests ==
    {[id |-> "r1", creator_id |-> "u1", client_id |-> "u2"],
     [id |-> "r2", creator_id |-> "u3", client_id |-> "u1"]}
RoleOf(u) == IF u = "u2" THEN "client" ELSE "creator"
Tabs == {"received", "sent"}

\* the useState initial values of RequestsPage
FreshList ==
    [pc |-> "getUser", sessionUser |-> NoUser, currentUserId |-> NoUser,
     userRole |-> Null, activeTab |-> "received", requests |-> {},
     related |-> {}, loading |-> TRUE, errorMsg |-> Null, route |-> <<>>,
     fetches |-> <<>>]

\* the effect on [currentUserId, activeTab] starts fetchData with the values
\* of its render; runs still in flight are not cancelled
StartFetchData(l) ==
    [l EXCEPT !.loading = TRUE, !.errorMsg = Null,
              !.fetches = Append(@, [tab |-> l.activeTab,
                                     userId |-> l.currentUserId,
                                     pc |-> "requests", rows |-> {}])]

\* the screen is mounted in a browser whose logged-in user is u (or nobody);
\* fetchData of the first render returns at once, currentUserId being null
ListOpen(u) ==
    /\ list.pc = "closed"
    /\ list' = [FreshList EXCEPT !.sessionUser = u]
    /\ UNCHANGED notList

\* init: getUser; no user pushes the login route
ListInitGetUser ==
    /\ list.pc = "getUser"
    /\ IF list.sessionUser = NoUser
       THEN list' = [list EXCEPT !.pc = "redirected",
                                 !.route = <<"/auth/login?next=", "/requests">>]
       ELSE list' = StartFetchData(
                        [list EXCEPT !.pc = "profile",
                                     !.currentUserId = list.sessionUser])
    /\ UNCHANGED notList

\* init: the profiles select answered with the role; a client's tab
\* becomes 'sent', which starts fetchData again
ListInitProfile ==
    /\ list.pc = "profile"
    /\ Len(list.fetches) < MaxListFetches
    /\ LET role == RoleOf(list.currentUserId)
           tab == IF role = "client" THEN "sent" ELSE "received"
           next == [list EXCEPT !.pc = "mounted", !.userRole = role,
                                !.activeTab = tab]
       IN  list' = IF tab # list.activeTab THEN StartFetchData(next) ELSE next
    /\ UNCHANGED notList

\* init: the profiles select answered with an error
ListInitProfileError ==
    /\ list.pc = "profile"
    /\ list' = [list EXCEPT !.pc = "mounted", !.userRole = Null,
                             !.activeTab = "received"]
    /\ UNCHANGED notList

\* a tab button: 'received' is rendered for a creator only
ListClickTab(tab) ==
    /\ list.pc = "mounted"
    /\ tab = "received" => list.userRole = "creator"
    /\ tab # list.activeTab
    /\ Len(list.fetches) < MaxListFetches
    /\ list' = StartFetchData([list EXCEPT !.activeTab = tab])
    /\ UNCHANGED notList

\* the filter column of a tab
FilterCol(tab) == IF tab = "received" THEN "creator_id" ELSE "client_id"

\* requests.select('*').eq(filterCol, currentUserId)
SelectRequests(tab, userId) ==
    {r \in ListRequests : r[FilterCol(tab)] = userId}

\* fetchData: the requests select answered with its rows
ListFetchRequests(i) ==
    LET f == list.fetches[i]
        rows == SelectRequests(f.tab, f.userId)
    IN  /\ list.pc \in {"profile", "mounted"}
        /\ i \in DOMAIN list.fetches
        /\ f.pc = "requests"
        /\ IF rows = {}
           THEN list' = [list EXCEPT !.requests = rows, !.related = {},
                                     !.loading = FALSE,
                                     !.fetches = RemoveAt(@, i)]
           ELSE list' = [list EXCEPT !.requests = rows,
                                     !.fetches[i].pc = "related",
                                     !.fetches[i].rows = rows]
        /\ UNCHANGED notList

\* fetchData: the requests select answered with an error
ListFetchRequestsError(i) ==
    /\ list.pc \in {"profile", "mounted"}
    /\ i \in DOMAIN list.fetches
    /\ list.fetches[i].pc = "requests"
    /\ list' = [list EXCEPT !.errorMsg = "listfail", !.loading = FALSE,
                             !.fetches = RemoveAt(@, i)]
    /\ UNCHANGED notList

\* fetchData: the profiles and works selects answered; the maps are those
\* of the rows of this run
ListFetchRelated(i) ==
    /\ list.pc \in {"profile", "mounted"}
    /\ i \in DOMAIN list.fetches
    /\ list.fetches[i].pc = "related"
    /\ list' = [list EXCEPT !.related = {r.id : r \in list.fetches[i].rows},
                             !.loading = FALSE,
                             !.fetches = RemoveAt(@, i)]
    /\ UNCHANGED notList

\* fetchData: one of the related selects threw, the catch block runs
ListFetchThrow(i) ==
    /\ list.pc \in {"profile", "mounted"}
    /\ i \in DOMAIN list.fetches
    /\ list.fetches[i].pc = "related"
    /\ list' = [list EXCEPT !.errorMsg = "listfail", !.loading = FALSE,
                             !.fetches = RemoveAt(@, i)]
    /\ UNCHANGED notList

\* the user leaves the screen once its calls have drained
ListLeave ==
    /\ list.pc \in {"mounted", "redirected"}
    /\ list.fetches = <<>>
    /\ list' = ClosedList
    /\ UNCHANGED notList

NextList ==
    \/ \E u \in ListUsers \cup {NoUser} : ListOpen(u)
    \/ ListInitGetUser
    \/ ListInitProfile
    \/ ListInitProfileError
    \/ \E tab \in Tabs : ListClickTab(tab)
    \/ \E i \in 1..MaxListFetches : ListFetchRequests(i)
    \/ \E i \in 1..MaxListFetches : ListFetchRequestsError(i)
    \/ \E i \in 1..MaxListFetches : ListFetchRelated(i)
    \/ \E i \in 1..MaxListFetches : ListFetchThrow(i)
    \/ ListLeave

SpecList == Init /\ [][NextList]_vars

\* ------------------------------------------------------------ login redirect
\* A visitor who is not logged in triggers an action that needs a login, is
\* sent to the login screen and logs in.  A URL is the sequence of its
\* path, its delimiters and the texts between them.
AuthTriggers ==
    {"handleCreateRequest", "RequestNewPageClient", "NewRequestPage",
     "RequestNewPageClientRpc", "WorkLikeButton", "RequestsPage",
     "NewWorkPage", "ProfileEditPage"}

\* the triggers that carry a creatorId and a workId
RequestTriggers ==
    {"handleCreateRequest", "RequestNewPageClient", "NewRequestPage",
     "RequestNewPageClientRpc"}

\* `${id}` of an id that may be null or undefined, written with || ''
IdText(id) == IF id = Null THEN <<>> ELSE <<id>>

\* `/requests/new?creatorId=${creatorId}&workId=${workId}`
RequestNewPath(creatorId, workId) ==
    <<"/requests/new", "?", "creatorId", "=">> \o IdText(creatorId)
        \o <<"&", "workId", "=">> \o IdText(workId)

\* `/requests/new?creatorId=${creatorId}${workId ? `&workId=${workId}` : ''}`
RequestNewPathOptional(creatorId, workId) ==
    <<"/requests/new", "?", "creatorId", "=">> \o IdText(creatorId)
        \o (IF workId # Null THEN <<"&", "workId", "=", workId>> ELSE <<>>)

\* encodeURIComponent and the decoding done by URLSearchParams, on the
\* delimiters of a query string
EncodeToken(t) ==
    CASE t = "?" -> "%3F" [] t = "=" -> "%3D" [] t = "&" -> "%26"
      [] OTHER -> t
DecodeToken(t) ==
    CASE t = "%3F" -> "?" [] t = "%3D" -> "=" [] t = "%26" -> "&"
      [] OTHER -> t
encodeURIComponent(url) == [k \in DOMAIN url |-> EncodeToken(url[k])]
Decode(url) == [k \in DOMAIN url |-> DecodeToken(url[k])]

\* the path a trigger wants the visitor back on
ReturnPath(trigger, creatorId, workId) ==
    CASE trigger \in {"handleCreateRequest", "RequestNewPageClient"} ->
            RequestNewPath(creatorId, workId)
      [] trigger \in {"NewRequestPage", "RequestNewPageClientRpc"} ->
            RequestNewPathOptional(creatorId, workId)
      [] trigger = "WorkLikeButton" -> WorkRoute
      [] trigger = "RequestsPage" -> <<"/requests">>
      [] trigger = "NewWorkPage" -> <<"/works/new">>
      [] trigger = "ProfileEditPage" -> <<"/profile/edit">>

\* the URL the trigger pushes: only NewRequestPage encodes the path
LoginUrl(trigger, creatorId, workId) ==
    <<"/auth/login", "?", "next", "=">>
        \o (IF trigger = "NewRequestPage"
            THEN encodeURIComponent(ReturnPath(trigger, creatorId, workId))
            ELSE ReturnPath(trigger, creatorId, workId))

RECURSIVE BeforeFirst(_, _)
BeforeFirst(url, t) ==
    IF url = <<>> \/ Head(url) = t THEN <<>>
    ELSE <<Head(url)>> \o BeforeFirst(Tail(url), t)

RECURSIVE AfterFirst(_, _)
AfterFirst(url, t) ==
    IF url = <<>> THEN <<>>
    ELSE IF Head(url) = t THEN Tail(url) ELSE AfterFirst(Tail(url), t)

\* URLSearchParams.get on a query string: the pairs are split at "&", each
\* at its first "="; null when no pair has the name
RECURSIVE QueryGet(_, _)
QueryGet(query, name) ==
    IF query = <<>> THEN NullText
    ELSE LET pair == BeforeFirst(query, "&")
         IN  IF Decode(BeforeFirst(pair, "=")) = <<name>>
             THEN Decode(AfterFirst(pair, "="))
             ELSE QueryGet(AfterFirst(query, "&"), name)

\* useSearchParams().get(name) of the page at url
searchParamsGet(url, name) == QueryGet(AfterFirst(url, "?"), name)

\* searchParams.get('next') || '/works'
NextOf(url) ==
    IF searchParamsGet(url, "next") \in {NullText, <<>>}
    THEN <<"/works">> ELSE searchParamsGet(url, "next")

\* the trigger finds no user and pushes the login URL; nothing is written
AuthRedirect(trigger, creatorId, workId) ==
    /\ auth.pc = "closed"
    /\ trigger \notin RequestTriggers => (creatorId = Null /\ workId = Null)
    /\ trigger \in RequestTriggers => creatorId # Null
    /\ trigger = "handleCreateRequest" => workId # Null
    /\ auth' = [pc |-> "login", trigger |-> trigger, creatorId |-> creatorId,
                workId |-> workId,
                url |-> LoginUrl(trigger, creatorId, workId),
                tab |-> "login", loading |-> FALSE, errorMsg |-> Null,
                user |-> NoUser,
                route |-> <<>>, formCreatorId |-> NullText,
                formWorkId |-> NullText]
    /\ UNCHANGED notAuth

\* handleLogin up to its await
HandleLogin ==
    /\ auth.pc = "login"
    /\ auth.tab = "login"
    /\ ~auth.loading
    /\ auth' = [auth EXCEPT !.pc = "signIn", !.loading = TRUE,
                             !.errorMsg = Null]
    /\ UNCHANGED notAuth

\* signInWithPassword succeeded for user u: router.push(next)
LoginOk(u) ==
    /\ auth.pc = "signIn"
    /\ auth' = [auth EXCEPT !.pc = "returned", !.user = u,
                             !.route = NextOf(auth.url)]
    /\ UNCHANGED notAuth

\* signInWithPassword answered with an error
LoginError ==
    /\ auth.pc = "signIn"
    /\ auth' = [auth EXCEPT !.pc = "login", !.loading = FALSE,
                             !.errorMsg = "loginfail"]
    /\ UNCHANGED notAuth

\* the tab buttons of the login screen
AuthSetTab(tab) ==
    /\ auth.pc = "login"
    /\ tab # auth.tab
    /\ auth' = [auth EXCEPT !.tab = tab]
    /\ UNCHANGED notAuth

\* handleSignup up to its first await
AuthHandleSignup ==
    /\ auth.pc = "login"
    /\ auth.tab = "signup"
    /\ ~auth.loading
    /\ auth' = [auth EXCEPT !.pc = "signUp", !.loading = TRUE,
                             !.errorMsg = Null]
    /\ UNCHANGED notAuth

\* signUp and the profiles insert succeeded: the route depends on the role
\* alone
SignupOk(u, role) ==
    /\ auth.pc = "signUp"
    /\ auth' = [auth EXCEPT
                    !.pc = "signedUp", !.user = u,
                    !.route = IF role = "creator" THEN <<"/profile/edit">>
                              ELSE <<"/works">>]
    /\ UNCHANGED notAuth

\* signUp or the profiles insert answered with an error
SignupError ==
    /\ auth.pc = "signUp"
    /\ auth' = [auth EXCEPT !.pc = "login", !.loading = FALSE,
                             !.errorMsg = "signupfail"]
    /\ UNCHANGED notAuth

\* the request form mounted on the route reads its query
RequestFormMount ==
    /\ auth.pc = "returned"
    /\ Head(auth.route) = "/requests/new"
    /\ auth' = [auth EXCEPT
                    !.pc = "form",
                    !.formCreatorId = searchParamsGet(auth.route, "creatorId"),
                    !.formWorkId = searchParamsGet(auth.route, "workId")]
    /\ UNCHANGED notAuth

AuthLeave ==
    /\ auth.pc \in {"login", "returned", "signedUp", "form"}
    /\ auth' = [pc |-> "closed"]
    /\ UNCHANGED notAuth

NextAuth ==
    \/ \E trigger \in AuthTriggers, creatorId \in CreatorIds \cup {Null},
          workId \in WorkIds \cup {Null} :
            AuthRedirect(trigger, creatorId, workId)
    \/ \E tab \in {"login", "signup"} : AuthSetTab(tab)
    \/ AuthHandleSignup
    \/ \E u \in Users, role \in Roles : SignupOk(u, role)
    \/ SignupError
    \/ HandleLogin
    \/ \E u \in Users : LoginOk(u)
    \/ LoginError
    \/ RequestFormMount
    \/ AuthLeave

SpecAuth == Init /\ [][NextAuth]_vars

\* ------------------------------------------------------------ new work, work edit
\* NewWorkPage and WorkEditPage on work w1, next to WorkDetailPage.  The
\* session of the browser may change while a page is open.
\* everything but the work variables and the edit page
notWork ==
    <<detailVars, submitVars, likeVars, profileVars, headerVars, listVars,
      authVars>>

FreshWorkEdit ==
    [page |-> Null, pc |-> "getUser", sessionUser |-> NoUser, user |-> NoUser,
     submitUser |-> NoUser, role |-> Null, loading |-> FALSE, saving |-> FALSE, forbidden |-> FALSE,
     errorMsg |-> Null, work |-> NoRow, isPublic |-> "true", call |-> NoCall,
     route |-> <<>>]

\* the visitor logs in as someone else, or out, in another tab
EditSessionChange(u) ==
    /\ workEdit.pc # "closed"
    /\ u # workEdit.sessionUser
    /\ workEdit' = [workEdit EXCEPT !.sessionUser = u]
    /\ UNCHANGED notEdit

NewWorkOpen(u) ==
    /\ workEdit.pc = "closed"
    /\ workRow = NoRow
    /\ workEdit' = [FreshWorkEdit EXCEPT !.page = "NewWorkPage",
                                         !.sessionUser = u]
    /\ UNCHANGED notEdit

\* checkAuth: no user pushes the login route, else the role is read
NewWorkCheckAuth ==
    /\ workEdit.pc = "getUser" /\ workEdit.page = "NewWorkPage"
    /\ IF workEdit.sessionUser = NoUser
       THEN workEdit' = [workEdit EXCEPT
                            !.pc = "redirected",
                            !.route = <<"/auth/login?next=", "/works/new">>]
       ELSE workEdit' = [workEdit EXCEPT
                            !.pc = "ready",
                            !.user = workEdit.sessionUser,
                            !.role = RoleOf(workEdit.sessionUser)]
    /\ UNCHANGED notEdit

\* checkAuth: the profiles select answered with an error, role stays null
NewWorkCheckAuthError ==
    /\ workEdit.pc = "getUser" /\ workEdit.page = "NewWorkPage"
    /\ workEdit.sessionUser # NoUser
    /\ workEdit' = [workEdit EXCEPT !.pc = "ready",
                                     !.user = workEdit.sessionUser,
                                     !.errorMsg = "profilefail"]
    /\ UNCHANGED notEdit

\* the form is rendered for a creator only
NewWorkFormRendered ==
    /\ workEdit.pc = "ready" /\ workEdit.page = "NewWorkPage"
    /\ workEdit.role = "creator"

\* handleSubmit up to getUser; valid: a title and a file were given
NewWorkHandleSubmit(valid) ==
    /\ NewWorkFormRendered
    /\ ~workEdit.loading
    /\ IF ~valid
       THEN workEdit' = [workEdit EXCEPT !.errorMsg = "required"]
       ELSE workEdit' = [workEdit EXCEPT !.errorMsg = Null, !.loading = TRUE,
                                         !.pc = "submitGetUser"]
    /\ UNCHANGED notEdit

\* the insert payload: creator_id is the user getUser returned in
\* handleSubmit
NewWorkPayload ==
    [creator_id |-> workEdit.sessionUser]

\* handleSubmit: getUser answered; without a user the submit ends
NewWorkSubmitGetUser ==
    /\ workEdit.pc = "submitGetUser" /\ workEdit.page = "NewWorkPage"
    /\ IF workEdit.sessionUser = NoUser
       THEN workEdit' = [workEdit EXCEPT !.pc = "ready", !.loading = FALSE,
                                         !.errorMsg = "nologin"]
       ELSE workEdit' = [workEdit EXCEPT !.pc = "insert",
                                         !.submitUser = workEdit.sessionUser,
                                         !.call = NewWorkPayload]
    /\ UNCHANGED notEdit

\* the upload and works.insert succeeded; is_public is the table's default
NewWorkInsertOk(v) ==
    /\ workEdit.pc = "insert" /\ workEdit.page = "NewWorkPage"
    /\ workRow = NoRow
    /\ workRow' = [id |-> "w1", creator_id |-> workEdit.call.creator_id,
                   is_public |-> v]
    /\ workEdit' = [workEdit EXCEPT !.pc = "navigated", !.call = NoCall,
                                     !.route = WorkRoute]
    /\ UNCHANGED <<workDetail, worksPage, profileDetail, notWork>>

\* the upload or the insert answered with an error, or a call threw
NewWorkInsertError ==
    /\ workEdit.pc = "insert" /\ workEdit.page = "NewWorkPage"
    /\ workEdit' = [workEdit EXCEPT !.pc = "ready", !.call = NoCall,
                                     !.loading = FALSE,
                                     !.errorMsg = "insertfail"]
    /\ UNCHANGED notEdit

WorkEditOpen(u) ==
    /\ workEdit.pc = "closed"
    /\ workEdit' = [FreshWorkEdit EXCEPT !.page = "WorkEditPage",
                                         !.sessionUser = u, !.loading = TRUE]
    /\ UNCHANGED notEdit

\* init: getUser; no user ends in forbidden
WorkEditGetUser ==
    /\ workEdit.pc = "getUser" /\ workEdit.page = "WorkEditPage"
    /\ IF workEdit.sessionUser = NoUser
       THEN workEdit' = [workEdit EXCEPT !.pc = "mounted", !.forbidden = TRUE,
                                         !.loading = FALSE]
       ELSE workEdit' = [workEdit EXCEPT !.pc = "fetchWork",
                                         !.user = workEdit.sessionUser]
    /\ UNCHANGED notEdit

\* init with the owner test left out
WorkEditFetchWorkAnyUser ==
    /\ workEdit.pc = "fetchWork" /\ workEdit.page = "WorkEditPage"
    /\ workRow # NoRow
    /\ workEdit' = [workEdit EXCEPT
                        !.pc = "mounted", !.loading = FALSE,
                        !.work = workRow,
                        !.isPublic = IF workRow.is_public = Null THEN "true"
                                     ELSE workRow.is_public]
    /\ UNCHANGED notEdit

\* init: the works select answered with the row; owner test; the form
\* state is filled for the owner
WorkEditFetchWork ==
    /\ workEdit.pc = "fetchWork" /\ workEdit.page = "WorkEditPage"
    /\ workRow # NoRow
    /\ IF workRow.creator_id # workEdit.user
       THEN workEdit' = [workEdit EXCEPT !.pc = "mounted",
                                         !.forbidden = TRUE,
                                         !.loading = FALSE]
       ELSE workEdit' = [workEdit EXCEPT
                            !.pc = "mounted", !.loading = FALSE,
                            !.work = workRow,
                            !.isPublic = IF workRow.is_public = Null
                                         THEN "true" ELSE workRow.is_public]
    /\ UNCHANGED notEdit

\* init: the works select answered with an error or without a row
WorkEditFetchWorkError ==
    /\ workEdit.pc = "fetchWork" /\ workEdit.page = "WorkEditPage"
    /\ workEdit' = [workEdit EXCEPT !.pc = "mounted", !.loading = FALSE,
                                     !.errorMsg = "notfound"]
    /\ UNCHANGED notEdit

\* the form, below the loading, forbidden and not-found early returns
WorkEditFormRendered ==
    /\ workEdit.pc = "mounted" /\ workEdit.page = "WorkEditPage"
    /\ ~workEdit.loading /\ ~workEdit.forbidden
    /\ workEdit.work # NoRow

\* the checkbox of the form
WorkEditSetPublic(v) ==
    /\ WorkEditFormRendered
    /\ v # workEdit.isPublic
    /\ workEdit' = [workEdit EXCEPT !.isPublic = v]
    /\ UNCHANGED notEdit

\* handleSubmit up to the update
WorkEditHandleSubmit ==
    /\ WorkEditFormRendered
    /\ ~workEdit.saving
    /\ workEdit' = [workEdit EXCEPT
                        !.saving = TRUE, !.errorMsg = Null,
                        !.call = [id |-> workEdit.work.id,
                                  is_public |-> workEdit.isPublic]]
    /\ UNCHANGED notEdit

\* works.update({..., is_public}).eq('id', work.id) succeeded; the detail
\* route is pushed after the timeout
WorkEditSaveOk ==
    /\ workEdit.pc = "mounted" /\ workEdit.page = "WorkEditPage"
    /\ workEdit.call # NoCall
    /\ workRow' = [workRow EXCEPT !.is_public = workEdit.call.is_public]
    /\ workEdit' = [workEdit EXCEPT !.pc = "navigated", !.call = NoCall,
                                     !.route = WorkRoute]
    /\ UNCHANGED <<workDetail, worksPage, profileDetail, notWork>>

\* the update answered with an error, or a call threw
WorkEditSaveError ==
    /\ workEdit.pc = "mounted" /\ workEdit.page = "WorkEditPage"
    /\ workEdit.call # NoCall
    /\ workEdit' = [workEdit EXCEPT !.call = NoCall, !.saving = FALSE,
                                     !.errorMsg = "savefail"]
    /\ UNCHANGED notEdit

WorkEditLeave ==
    /\ workEdit.pc \in {"ready", "redirected", "mounted", "navigated"}
    /\ workEdit.call = NoCall
    /\ workEdit' = [pc |-> "closed"]
    /\ UNCHANGED notEdit

EditUsers == {"u1", "u2", "u3"}

NextEdit ==
    \/ \E u \in EditUsers \cup {NoUser} : EditSessionChange(u)
    \/ \E u \in EditUsers \cup {NoUser} : NewWorkOpen(u)
    \/ NewWorkCheckAuth
    \/ NewWorkCheckAuthError
    \/ \E valid \in BOOLEAN : NewWorkHandleSubmit(valid)
    \/ NewWorkSubmitGetUser
    \/ \E v \in Visibility : NewWorkInsertOk(v)
    \/ NewWorkInsertError
    \/ \E u \in EditUsers \cup {NoUser} : WorkEditOpen(u)
    \/ WorkEditGetUser
    \/ WorkEditFetchWork
    \/ WorkEditFetchWorkError
    \/ \E v \in {"true", "false"} : WorkEditSetPublic(v)
    \/ WorkEditHandleSubmit
    \/ WorkEditSaveOk
    \/ WorkEditSaveError
    \/ WorkEditLeave
    \/ \E u \in EditUsers \cup {NoUser} : WorkDetailOpen(u)
    \/ WorkDetailInit
    \/ WorkDetailInitError
    \/ HandleToggleVisibility
    \/ ToggleVisibilityOk
    \/ ToggleVisibilityError
    \/ WorkDetailLeave

SpecEdit == Init /\ [][NextEdit]_vars

\* ------------------------------------------------------------ properties
ForwardTransitions ==
    {<<"pending", "accepted">>, <<"pending", "rejected">>,
     <<"accepted", "closed">>}

\* the status buttons that belong to a status
StatusActions(st) ==
    IF st = "pending" THEN {"accept", "reject"}
    ELSE IF st = "accepted" THEN {"close"} ELSE {}

\* C1 as stated: every status write applied at the backend takes the stored
\* status along pending->accepted, pending->rejected or accepted->closed, so
\* none is applied to a stored status of rejected or closed
C1_StoredForward ==
    [][\A s \in Sessions :
          UpdateStatusOk(s) =>
              <<request.status, request'.status>> \in ForwardTransitions]_vars

\* C1 amended: every status update is a forward transition of the local
\* status of the screen that issues it, at the click and when the write is
\* applied; a screen whose local status is rejected or closed issues none
C1_LocalForward ==
    [][\A s \in Sessions :
          /\ \A a \in {"accept", "reject", "close"} :
                HandleStatusClick(s, a) =>
                    <<status[s], updCall'[s].next>> \in ForwardTransitions
          /\ UpdateStatusOk(s) =>
                <<status[s], request'.status>> \in ForwardTransitions]_vars

\* one tab rejected the request, the other tab then accepted it
C1_Witness ==
    \E s, t \in Sessions :
        /\ s # t
        /\ MainRendered(s) /\ status[s] = "rejected"
        /\ MainRendered(t) /\ status[t] = "accepted"
        /\ updCall[t] = NoCall
        /\ request.status = "accepted"

\* C2: a status update is offered or in flight only on a screen whose current
\* user is the request's creator_id, and only such a screen's update is
\* applied at the backend
C2_OnlyCreatorUpdates ==
    /\ [](\A s \in Sessions :
            (updCall[s] # NoCall \/ OfferedActions(s) # {})
                => (request # NoRow /\ sessUser[s] = request.creator_id))
    /\ [][\A s \in Sessions :
              UpdateStatusOk(s) => sessUser[s] = request.creator_id]_vars

\* the client looks at the pending request while the creator's update is in flight
C2_Witness ==
    \E s, t \in Sessions :
        /\ MainRendered(s)
        /\ view[s].isClient /\ ~view[s].isCreator
        /\ status[s] = "pending"
        /\ updCall[t] # NoCall

\* C3: the stored status, every status in an update's payload and every local
\* status is one of the four values, and the request row is inserted with
\* status pending
C3_StatusDomain ==
    /\ [](/\ request # NoRow => request.status \in Status
          /\ \A s \in Sessions :
                /\ status[s] \in Status
                /\ updCall[s] # NoCall => updCall[s].next \in Status
                /\ view[s] # NoView => view[s].request.status \in Status)
    /\ [][request = NoRow /\ request' # NoRow
              => request'.status = "pending"]_vars

\* a screen has walked the request through to closed
C3_Witness ==
    \E s \in Sessions :
        /\ MainRendered(s)
        /\ status[s] = "closed"
        /\ view[s].request.status = "closed"
        /\ request.status = "closed"

\* C4 as stated: no message insert from a detail screen is applied while the
\* stored status of the request is rejected or closed
C4_NoInsertWhenFinal ==
    [][\A s \in Sessions :
          SendMessageOk(s) => request.status \in {"pending", "accepted"}]_vars

\* C5 as stated: from the load on, the list of the screen changes only by a
\* successful send of that screen appending its row at the end, so the list
\* is the loaded messages followed by the sent ones and none disappears
C5_ListIsLoadPlusSends ==
    [][\A s \in Sessions :
          (view[s] # NoView /\ view'[s] # NoView) =>
              IF SendMessageOk(s)
              THEN view'[s].messages =
                       Append(view[s].messages, messages'[Len(messages')])
              ELSE view'[s].messages = view[s].messages]_vars

\* C6 as stated: a failed send leaves the draft, the list and the table as
\* they were, starts no other send, and (unless the screen's status has
\* become rejected or closed) leaves the send form on the screen, not busy
C6_SendFailureKeepsForm ==
    [][\A s \in Sessions :
          SendMessageError(s) =>
              /\ newMessage'[s] = newMessage[s]
              /\ view'[s] = view[s]
              /\ messages' = messages
              /\ sendCall'[s] = NoCall
              /\ status[s] \in {"pending", "accepted"} =>
                    (SendFormRendered(s)' /\ ~sending'[s])]_vars

\* C7 as stated: a failed status update leaves the local status and the
\* offered buttons as they were before the attempt, sets an error message,
\* resets updatingStatus and leaves the buttons enabled
C7_UpdateFailureKeepsActions ==
    [][\A s \in Sessions :
          UpdateStatusError(s) =>
              /\ status'[s] = status[s]
              /\ OfferedActions(s)' = StatusActions(status[s])
              /\ errorMsg'[s] # Null
              /\ ~updatingStatus'[s]
              /\ \A a \in StatusActions(status[s]) :
                    StatusButtonEnabled(s, a)']_vars

\* C8 as stated: a successful accept leaves status accepted with the close
\* button alone offered, a successful close leaves status closed, and from a
\* local status of closed or rejected on no button is offered while the
\* screen stays open
C8_AcceptThenClose ==
    [][\A s \in Sessions :
          /\ (UpdateStatusOk(s) /\ updCall[s].next = "accepted") =>
                (status'[s] = "accepted" /\ OfferedActions(s)' = {"close"})
          /\ (UpdateStatusOk(s) /\ updCall[s].next = "closed") =>
                status'[s] = "closed"
          /\ (pc[s] # "closed" /\ pc'[s] # "closed"
                /\ status[s] \in {"closed", "rejected"}) =>
                OfferedActions(s)' = {}]_vars

\* C9 as stated: right after a successful update the local status is the new
\* status and the offered buttons are those of the new status
C9_SuccessShowsNewStatus ==
    [][\A s \in Sessions :
          UpdateStatusOk(s) =>
              /\ status'[s] = updCall[s].next
              /\ OfferedActions(s)' = StatusActions(updCall[s].next)]_vars

\* C10: an update in flight can always succeed, whatever the stored status;
\* when it is applied the stored status and the local status of its screen
\* become the written status; the local status of a screen changes by its
\* own update or its own (re)load only, never by the other screen's write
C10_LastWriteWins ==
    [][\A s \in Sessions :
          /\ updCall[s] # NoCall => ENABLED UpdateStatusOk(s)
          /\ UpdateStatusOk(s) =>
                (request'.status = updCall[s].next
                    /\ status'[s] = updCall[s].next)
          /\ status'[s] # status[s] =>
                (UpdateStatusOk(s) \/ InitFetchRequest(s) \/ Leave(s))]_vars

\* one tab shows closed, the other wrote accepted last: accepted is stored
C10_Witness ==
    \E s, t \in Sessions :
        /\ s # t
        /\ MainRendered(s) /\ status[s] = "closed"
        /\ MainRendered(t) /\ status[t] = "accepted"
        /\ view[t].request.status = "accepted"
        /\ updCall[s] = NoCall /\ updCall[t] = NoCall
        /\ request.status = "accepted"

\* a screen opened by someone who is neither the request's creator nor its
\* client, a logged-out visitor included
NonParticipant(s) ==
    /\ pc[s] # "closed"
    /\ request # NoRow
    /\ sessUser[s] \notin {request.creator_id, request.client_id}

\* C11: on a screen of a non-participant the load that got the request row
\* ends in the permission error with no view model set; at no time does such
\* a screen hold a view model, render the main block, offer a status button
\* or the send form, or have a status update or a send in flight
C11_NonParticipantDenied ==
    /\ [](\A s \in Sessions :
            NonParticipant(s) =>
                /\ view[s] = NoView
                /\ ~MainRendered(s)
                /\ OfferedActions(s) = {}
                /\ ~SendFormRendered(s)
                /\ updCall[s] = NoCall /\ sendCall[s] = NoCall)
    /\ [][\A s \in Sessions :
            (NonParticipant(s)
                /\ (InitFetchMessages(s) \/ InitFetchMessagesError(s))) =>
                (errorMsg'[s] = "forbidden" /\ view'[s] = NoView
                    /\ ~loading'[s])]_vars

\* an unrelated user and a logged-out visitor both ended in the permission
\* error on a request that has a message
C11_Witness ==
    \E s, t \in Sessions :
        /\ sessUser[s] = "u3" /\ sessUser[t] = NoUser
        /\ NonParticipant(s) /\ NonParticipant(t)
        /\ pc[s] = "mounted" /\ pc[t] = "mounted"
        /\ errorMsg[s] = "forbidden" /\ errorMsg[t] = "forbidden"
        /\ messages # <<>>

\* C12: every row of the messages table has the request's creator_id or
\* client_id as sender_id; a send of the detail screen inserts with the user
\* id the screen loaded, and the form inserts the initial message with the
\* user id it wrote as client_id
C12_SendersAreParticipants ==
    /\ [](\A i \in 1..Len(messages) :
            messages[i].sender_id \in {request.creator_id, request.client_id})
    /\ [][/\ \A s \in Sessions :
                SendMessageOk(s) =>
                    /\ Len(messages') = Len(messages) + 1
                    /\ messages'[Len(messages')].sender_id
                          = view[s].currentUserId
                    /\ view[s].currentUserId = sessUser[s]
          /\ FormInsertMessage =>
                /\ Len(messages') = Len(messages) + 1
                /\ messages'[Len(messages')].sender_id = request.client_id
                /\ request.client_id = formUser]_vars

\* the form's initial message of the client, then a message sent from the
\* creator's screen and one sent from the client's screen, while an
\* unrelated user has the request open
C12_Witness ==
    /\ Len(messages) = 3
    /\ messages[1].sender_id = request.client_id
    /\ messages[2].sender_id = request.creator_id
    /\ messages[3].sender_id = request.client_id
    /\ \E s \in Sessions : NonParticipant(s) /\ pc[s] = "mounted"

NonDecreasing(rows) ==
    \A i, j \in 1..Len(rows) :
        i < j => rows[i].created_at <= rows[j].created_at

\* C13: the message list of a detail screen is in non-decreasing created_at
\* order, as loaded and after each of its sends, also when the other
\* participant inserted rows between the load and the send
C13_ListInCreatedAtOrder ==
    /\ [](\A s \in Sessions :
            view[s] # NoView => NonDecreasing(view[s].messages))
    /\ [][\A s \in Sessions :
            /\ (InitFetchMessages(s) /\ view'[s] # NoView) =>
                  view'[s].messages = OrderByCreatedAt(messages)
            /\ SendMessageOk(s) =>
                  /\ view'[s].messages # <<>>
                  /\ view'[s].messages[Len(view'[s].messages)]
                        = messages'[Len(messages')]]_vars

\* a screen loaded the first row and appended its own send after the other
\* participant had inserted a row the screen does not show
C13_Witness ==
    \E s \in Sessions :
        /\ view[s] # NoView
        /\ Len(messages) = 3
        /\ Len(view[s].messages) = 2
        /\ view[s].messages[1].id = 1
        /\ view[s].messages[2].id = 3
        /\ messages[2].sender_id # view[s].currentUserId

\* small is a contiguous part of big
Contains(big, small) ==
    \E i \in 0..(Len(big) - Len(small)) :
        SubSeq(big, i + 1, i + Len(small)) = small

\* the row a submission of the mounted form has to create
IsSubmittedRequest(r) ==
    /\ r.status = "pending"
    /\ r.creator_id = form.creatorId
    /\ r.client_id = form.currentUserId
    /\ r.work_id = form.workId

\* the steps of a submission create one request row and then one message of
\* the submitting user for that row whose body contains text
SubmissionCreates(text) ==
    /\ SubmitRequestOk =>
          /\ Len(requestsTable') = Len(requestsTable) + 1
          /\ SubSeq(requestsTable', 1, Len(requestsTable)) = requestsTable
          /\ IsSubmittedRequest(requestsTable'[Len(requestsTable')])
          /\ messagesTable' = messagesTable
    /\ SubmitMessageOk =>
          /\ requestsTable' = requestsTable
          /\ IsSubmittedRequest(requestsTable[form.requestId])
          /\ Len(messagesTable') = Len(messagesTable) + 1
          /\ LET m == messagesTable'[Len(messagesTable')]
             IN  /\ m.request_id = form.requestId
                 /\ m.sender_id = form.currentUserId
                 /\ Contains(m.body, text)
          /\ \A i \in 1..Len(messagesTable) :
                messagesTable[i].request_id # form.requestId
    /\ SubmitRpcOk =>
          /\ Len(requestsTable') = Len(requestsTable) + 1
          /\ SubSeq(requestsTable', 1, Len(requestsTable)) = requestsTable
          /\ IsSubmittedRequest(requestsTable'[Len(requestsTable')])
          /\ Len(messagesTable') = Len(messagesTable) + 1
          /\ LET m == messagesTable'[Len(messagesTable')]
             IN  /\ m.request_id = Len(requestsTable')
                 /\ m.sender_id = form.currentUserId
                 /\ Contains(m.body, text)
    /\ (form.pc # "closed" /\ form.submitting) => ~ENABLED HandleSubmit

\* C14 as stated: a successful submission with non-blank title and message
\* creates exactly one request (pending, creator C, client K, work W or
\* null) and exactly one initial message with sender K whose body contains
\* the submitted message text
C14_SubmissionCreatesRequestAndMessage ==
    [][SubmissionCreates(form.message)]_vars

\* C14 amended: as above, with the body containing the submitted message
\* text without its leading and trailing whitespace
C14_SubmissionCreatesTrimmedMessage ==
    [][SubmissionCreates(trim(form.message))]_vars

\* two submissions went through, one of a direct-insert form and one of the
\* form that calls the backend function, with and without a work
C14_Witness ==
    /\ form.pc = "navigated" /\ form.errorMsg = Null
    /\ Len(requestsTable) = 2 /\ Len(messagesTable) = 2
    /\ requestsTable[1].work_id = "w1" /\ requestsTable[2].work_id = Null
    /\ messagesTable[1].request_id = 1 /\ messagesTable[2].request_id = 2
    /\ messagesTable[1].body = <<"a">>
    /\ messagesTable[2].body = <<Space, "a", Space, "#", "w">>

\* C15 as stated: when the request insert succeeded and the insert of the
\* initial message fails, the request row stays (no rollback, no delete, no
\* retry of either insert), the failure is shown to the user as a warning
\* and the form navigates to the detail screen of the created request
C15_MessageFailureWarnsAndNavigates ==
    [][SubmitMessageError =>
          /\ requestsTable' = requestsTable
          /\ form.requestId \in 1..Len(requestsTable)
          /\ messagesTable' = messagesTable
          /\ form'.pc = "navigated"
          /\ form'.route = form.requestId
          /\ form'.errorMsg # Null]_vars

\* C16 as stated: for every initial is_public (true, false or null), after
\* two successive successful toggles by the owner the stored is_public and
\* the displayed visibility are what they were before the first toggle
C16_ToggleTwiceRestores ==
    (/\ workDetail.pc = "mounted"
     /\ workDetail.toggled = 2
     /\ workDetail.call = NoCall) =>
        /\ workRow.is_public = workDetail.loaded
        /\ isPublic = (IF workDetail.loaded = Null THEN "true"
                       ELSE workDetail.loaded)

\* C19 as stated: a work fetched with is_public false is shown to nobody but
\* its creator: not on the works list, not on the creator's profile seen by
\* someone else, not on the work detail screen opened by a non-owner
C19_PrivateWorkHidden ==
    /\ \A w \in worksPage.works : w.is_public # "false"
    /\ (profileDetail.pc = "mounted" /\ ~profileDetail.isMe) =>
          \A w \in profileDetail.works : w.is_public # "false"
    /\ (WorkRendered /\ workDetail.user # workDetail.work.creator_id) =>
          workDetail.work.is_public # "false"

\* C17: when a logged-in user who is not the owner and whose like the button
\* did not find at load likes and then unlikes, both with success, the
\* displayed count is the one shown before the like and liked is false
C17_LikeUnlikeRestoresCount ==
    (/\ likeButton.pc = "mounted"
     /\ likeButton.toggled = 2
     /\ likeButton.call = NoCall
     /\ ~likeButton.loaded.liked) =>
        /\ likeButton.currentUserId \notin {NoUser, LikeCreatorId}
        /\ likeButton.likeCount = likeButton.loaded.likeCount
        /\ ~likeButton.liked

\* user u2 liked and unliked a work that user u3 likes
C17_Witness ==
    /\ likeButton.pc = "mounted"
    /\ likeButton.toggled = 2
    /\ likeButton.call = NoCall
    /\ ~likeButton.loaded.liked
    /\ likeButton.currentUserId = "u2"
    /\ likeButton.likeCount = 1
    /\ likesTable = <<"u3">>

\* C18 as stated: whatever was clicked on the button, the table holds at
\* most one like row of its user for the work, and while no toggle is in
\* flight liked is true exactly when such a row exists
C18_OneRowAndFlagMatches ==
    (likeButton.pc = "mounted" /\ likeButton.currentUserId # NoUser) =>
        /\ Cardinality(LikeRowsOf(likeButton.currentUserId)) <= 1
        /\ likeButton.call = NoCall =>
              (likeButton.liked <=> LikeRowsOf(likeButton.currentUserId) # {})

\* C20: no step changes the role of an existing profiles row, so after any
\* saves from either edit form the role is the one written at signup; a
\* successful save writes its payload and nothing else
C20_RoleNeverUpdated ==
    [][/\ \A u \in ProfileUsers :
            profilesTable[u] # NoRow =>
                /\ profilesTable'[u] # NoRow
                /\ profilesTable'[u].role = profilesTable[u].role
                /\ profilesTable'[u].role \in Roles
       /\ ProfileSaveOk =>
            /\ "role" \notin DOMAIN profileEdit.payload
            /\ profilesTable'[profileEdit.user].display_name
                  = trim(profileEdit.display_name)]_vars

\* creator u1 saved from ProfileEditPage (bio is the empty string) and
\* client u2 saved from the other form (bio written, area left null); both
\* kept their role
C20_Witness ==
    /\ profilesTable["u1"] # NoRow /\ profilesTable["u2"] # NoRow
    /\ profilesTable["u1"].role = "creator"
    /\ profilesTable["u1"].bio = <<>>
    /\ profilesTable["u1"].display_name = <<"n">>
    /\ profilesTable["u2"].role = "client"
    /\ profilesTable["u2"].bio = <<"b">>
    /\ profilesTable["u2"].area = NullText

\* the screen's view model belongs to a logged-in participant and its local
\* status is open
OpenForParticipant(s) ==
    /\ view[s] # NoView
    /\ request # NoRow
    /\ view[s].currentUserId # NoUser
    /\ view[s].currentUserId \in {request.creator_id, request.client_id}
    /\ status[s] \notin {"rejected", "closed"}

\* C24: the send form is rendered, and handleSendMessage gets to its insert,
\* only on a screen whose view model is set for a logged-in participant and
\* whose local status is neither rejected nor closed; from the moment a
\* status update to rejected or closed succeeds on a screen the form is gone
\* and no send can be started there
C24_SendOnlyWhileOpen ==
    /\ [](\A s \in Sessions :
            /\ SendFormRendered(s) => OpenForParticipant(s)
            /\ (pc[s] # "closed" /\ status[s] \in {"rejected", "closed"}) =>
                  ~ENABLED HandleSendMessageUpTo(s, MaxSends))
    /\ [][\A s \in Sessions :
            /\ HandleSendMessageUpTo(s, MaxSends) => OpenForParticipant(s)
            /\ (UpdateStatusOk(s) /\ updCall[s].next \in {"rejected", "closed"}) =>
                  /\ status'[s] = updCall[s].next
                  /\ ~SendFormRendered(s)'
                  /\ ~SendButtonEnabled(s)']_vars

\* the creator sent a message, typed the next one and then rejected the
\* request: the draft is still there and the table has room, the form is gone
C24_Witness ==
    \E s \in OneTab :
        /\ MainRendered(s)
        /\ view[s].isCreator
        /\ status[s] = "rejected" /\ request.status = "rejected"
        /\ updCall[s] = NoCall /\ sendCall[s] = NoCall
        /\ trim(newMessage[s]) # <<>>
        /\ Len(messages) = 2 /\ Len(messages) < MaxSends
        /\ \E i \in 1..Len(messages) :
              messages[i].sender_id = view[s].currentUserId

\* C25: whenever a screen's view model is set, the status inside it is the
\* screen's local status
C25_ViewStatusIsLocalStatus ==
    \A s \in Sessions :
        (pc[s] = "mounted" /\ view[s] # NoView) =>
            view[s].request.status = status[s]

\* C28: a status button is clicked only on a screen with no status update
\* in flight and the send button only on a screen with no send in flight,
\* the busy flag being true exactly while the call is in flight; an update
\* and a send of one screen may be in flight together (C28_Witness)
C28_OneCallOfEachKind ==
    /\ [](\A s \in Sessions :
            /\ updatingStatus[s] <=> updCall[s] # NoCall
            /\ sending[s] <=> sendCall[s] # NoCall
            /\ updCall[s] # NoCall =>
                  \A a \in {"accept", "reject", "close"} :
                      ~ENABLED HandleStatusClick(s, a)
            /\ sendCall[s] # NoCall =>
                  ~ENABLED HandleSendMessageUpTo(s, MaxSends + 1))
    /\ [][\A s \in Sessions :
            /\ \A a \in {"accept", "reject", "close"} :
                  HandleStatusClick(s, a) => updCall[s] = NoCall
            /\ HandleSendMessageUpTo(s, MaxSends) => sendCall[s] = NoCall]_vars

\* a status update and a send of the same screen are in flight together
C28_Witness ==
    \E s \in OneTab :
        /\ updCall[s] # NoCall /\ updatingStatus[s]
        /\ sendCall[s] # NoCall /\ sending[s]

Spaces(n) == [k \in 1..n |-> Space]

\* body is text with the spaces at its two ends removed
IsTrimOf(body, text) ==
    /\ body = <<>> \/ (Head(body) # Space /\ body[Len(body)] # Space)
    /\ \E i, j \in 0..Len(text) : text = Spaces(i) \o body \o Spaces(j)

\* C30: on a screen whose draft is empty or blank no send can be started;
\* the body a send carries is the draft of the click with the spaces at its
\* ends removed and is not empty, and the row the insert stores has exactly
\* that body
C30_BodyIsTrimmedDraft ==
    /\ [](\A s \in Sessions :
            (\A k \in 1..Len(newMessage[s]) : newMessage[s][k] = Space) =>
                ~ENABLED HandleSendMessageUpTo(s, MaxSends + 1))
    /\ [][\A s \in Sessions :
            /\ HandleSendMessageUpTo(s, MaxSends) =>
                  /\ sendCall'[s].body # <<>>
                  /\ IsTrimOf(sendCall'[s].body, newMessage[s])
            /\ SendMessageOk(s) =>
                  /\ Len(messages') = Len(messages) + 1
                  /\ messages'[Len(messages')].body = sendCall[s].body
                  /\ messages'[Len(messages')].body # <<>>
                  /\ SubSeq(messages', 1, Len(messages)) = messages]_vars

\* the creator sent the padded draft, stored without its spaces, and has
\* typed a blank draft since, with room left in the table
C30_Witness ==
    \E s \in OneTab :
        /\ MainRendered(s) /\ SendFormRendered(s)
        /\ sessUser[s] = "u1"
        /\ newMessage[s] = <<Space>>
        /\ sendCall[s] = NoCall
        /\ Len(messages) < MaxSends
        /\ \E i \in 1..Len(messages) :
              messages[i].sender_id = "u1" /\ messages[i].body = <<"a">>

\* C27: a status update or a send that has started is followed by a state
\* in which its busy flag is false again, and each of the four outcomes
\* (update applied, update refused, message stored, message refused) is the
\* step that clears the flag
C27_BusyFlagsClear ==
    /\ \A s \in OneTab :
            /\ updatingStatus[s] ~> ~updatingStatus[s]
            /\ sending[s] ~> ~sending[s]
    /\ [][\A s \in OneTab :
            /\ (UpdateStatusOk(s) \/ UpdateStatusError(s)) =>
                  (updatingStatus[s] /\ ~updatingStatus'[s])
            /\ (SendMessageOk(s) \/ SendMessageError(s)) =>
                  (sending[s] /\ ~sending'[s])]_vars

\* the accept was applied and the send that followed was refused; neither
\* flag is left set
C27_Witness ==
    \E s \in OneTab :
        /\ pc[s] = "mounted" /\ view[s] # NoView
        /\ status[s] = "accepted" /\ request.status = "accepted"
        /\ errorMsg[s] = "sendfail"
        /\ ~updatingStatus[s] /\ ~sending[s]
        /\ updCall[s] = NoCall /\ sendCall[s] = NoCall

\* the stored messages that are unread for user u: on a request u is a party
\* of, not read, not sent by u
UnreadFor(u) ==
    {m \in inbox.messages :
        /\ \E r \in inbox.requests :
              r.id = m.request_id /\ u \in {r.creator_id, r.client_id}
        /\ ~m.is_read
        /\ m.sender_id # u}

\* a run of fetchHeaderInfo none of whose calls failed and during which no
\* row was written
CleanFetch(i) ==
    /\ i \in DOMAIN header.fetches
    /\ ~header.fetches[i].erred
    /\ ~header.fetches[i].dirty

C29_NoWriteAndFailureKeepsState ==
    /\ []((likeButton.pc = "mounted"
            /\ likeButton.currentUserId \in {NoUser, LikeCreatorId}) =>
              /\ likeButton.call = NoCall
              /\ ~likeButton.toggling)
    /\ [][/\ (HandleToggleLike /\ likeButton.currentUserId = NoUser) =>
              /\ likeButton'.route = <<"/auth/login?next=", "/works/", "w1">>
              /\ likeButton'.call = NoCall
              /\ likesTable' = likesTable
          /\ (likeButton.pc = "mounted"
                /\ likeButton.currentUserId \in {NoUser, LikeCreatorId}
                /\ (HandleToggleLike \/ ToggleLikeOk \/ ToggleLikeError)) =>
              likesTable' = likesTable
          /\ ToggleLikeError =>
              /\ likeButton.toggling /\ ~likeButton'.toggling
              /\ likeButton'.liked = likeButton.liked
              /\ likeButton'.likeCount = likeButton.likeCount
              /\ likesTable' = likesTable]_vars

\* the delete of u2's like failed: the button still shows liked, the row is
\* still stored and the button can be clicked again
C29_Witness ==
    /\ likeButton.pc = "mounted"
    /\ likeButton.currentUserId = "u2"
    /\ likeButton.errorMsg = "togglefail"
    /\ likeButton.liked /\ likeButton.likeCount > 0
    /\ LikeRowsOf("u2") # {}
    /\ ~likeButton.toggling /\ likeButton.call = NoCall

\* C26: on the mounted list with no fetch in flight and no error shown, the
\* displayed requests are those of the active tab's filter for the current
\* user
C26_ListMatchesActiveTab ==
    (/\ list.pc = "mounted"
     /\ list.fetches = <<>>
     /\ list.errorMsg = Null
     /\ ~list.loading) =>
        list.requests =
            {r \in ListRequests :
                IF list.activeTab = "received"
                THEN r.creator_id = list.currentUserId
                ELSE r.client_id = list.currentUserId}

\* C22: after the login that followed a redirect the visitor is on the
\* return path of the action that was triggered, and the request form that
\* mounts there reads the creatorId and the workId the action carried
C22_LoginReturnsToPath ==
    /\ auth.pc \in {"returned", "form"} =>
          auth.route = ReturnPath(auth.trigger, auth.creatorId, auth.workId)
    /\ auth.pc = "form" =>
          /\ auth.formCreatorId = IdText(auth.creatorId)
          /\ auth.workId # Null => auth.formWorkId = <<auth.workId>>

\* C23: a work row update (edit form save, visibility toggle) is issued only
\* from a screen whose user at load is the work's creator_id; the edit
\* screen loaded by nobody or by another user shows no form, has no write
\* in flight and, when the row was read, is forbidden; a new work is
\* inserted with creator_id = the authenticated user of the submit.
C23_OnlyOwnerWrites ==
    /\ [][/\ WorkEditHandleSubmit =>
                (workEdit.user # NoUser /\ workEdit.user = workRow.creator_id)
          /\ WorkEditSaveOk => workEdit.user = workRow.creator_id
          /\ HandleToggleVisibility =>
                (workDetail.user # NoUser
                 /\ workDetail.user = workRow.creator_id)
          /\ \A v \in Visibility :
                NewWorkInsertOk(v) =>
                    (workEdit.submitUser # NoUser
                     /\ workRow'.creator_id = workEdit.submitUser)]_vars
    /\ [](/\ workEdit.pc = "mounted"
          /\ workEdit.page = "WorkEditPage"
          /\ \/ workEdit.user = NoUser
             \/ (workRow # NoRow /\ workEdit.user # workRow.creator_id)
          => /\ ~WorkEditFormRendered
             /\ workEdit.call = NoCall
             /\ workEdit.errorMsg # "notfound" => workEdit.forbidden)

C23_Witness ==
    /\ workRow # NoRow
    /\ workRow.creator_id = "u3"
    /\ workEdit.pc = "mounted"
    /\ workEdit.page = "WorkEditPage"
    /\ workEdit.user = "u1"
    /\ workEdit.forbidden
    /\ workDetail.pc = "mounted"
    /\ workDetail.user = "u3"
    /\ workDetail.call # NoCall

====
